---- MODULE Spec2Model ----
(***************************************************************************)
(* A model of the ZKOM node client (src/src): the registration flow of     *)
(* main, the launch of the node by start_node, and the stream consumer of  *)
(* TaskProcessor with its per-message handler and the Stable Diffusion     *)
(* retry loop.                                                             *)
(*                                                                         *)
(* The specifications share the variables:                                 *)
(*   SpecMain   main() and start_node(): registration, then the two tasks  *)
(*              seen only as started / ended;                              *)
(*   SpecNode   SpecMain together with the cycles of the heartbeat task;   *)
(*   SpecTask   TaskProcessor::start_processing() against a durable        *)
(*              at-least-once stream, a result sink and the backend;       *)
(*   SpecHeartbeat  the heartbeat task of a started node, with fairness;   *)
(*   SpecToken  DeviceManager::should_refresh_token on one input;          *)
(*   SpecConfig ConfigManager and the config file as JSON text;             *)
(*   SpecLoops  the two tasks of a started node, interleaved;               *)
(*   SpecRetry  the retry loops of text_to_image and of the reconnection    *)
(*              on the same budget and outcomes.                            *)
(* Each leaves the variables of the others at their initial values.        *)
(* Log statements are not part of the model.                               *)
(***************************************************************************)
EXTENDS Integers, Sequences, FiniteSets, TLC

None == "None"

----------------------------------------------------------------------------
(* Bounds of the model *)

\* largest (expires_at - now) in seconds the init response may carry
MaxDiff == 32
\* most negative (expires_at - now): a code that is already expired
MinDiffBelow == 6

\* jobs the stream holds at the start
MaxJobs == 2
\* messages received in a run, redeliveries included
MaxReceipts == 3
\* disconnects of the subscription in a run
MaxDisconnects == 2
\* images a backend response may carry
MaxImages == 2
\* milliseconds one backend request takes
CallMs == 100
\* bits of the unsigned words of should_refresh_token (u64, scaled down)
WordBits == 4
\* most dot-separated segments a token may have
MaxSegs == 4
\* setter calls made on one ConfigManager
MaxSetterCalls == 3
\* largest budget and first delay the two retry loops are compared on
MaxBudget == 5
MaxFirstDelay == 2
\* messages received and disconnects while the heartbeat task is followed too
MaxLoopReceipts == 1
MaxLoopDisconnects == 1

(* Program constants *)

DEVICE_VERIFY_POLL_INTERVAL == 5
MAX_RETRIES == 5
INITIAL_RETRY_DELAY_MS == 1000
RETRY_COUNT == 3
SETTLE_DELAY_S == 5

----------------------------------------------------------------------------
VARIABLES
    \* ---- main / start_node ----
    disk,             \* the config file: NodeConfig as persisted
    cfg,              \* config_manager.config of main (in memory)
    mpc,              \* position of main
    diff,             \* (expires_at - now).num_seconds() of the init response
    attempts,         \* main's `attempts`
    max_attempts,     \* main's `max_attempts`
    polls,            \* number of verify_device calls made (history)
    verifyOkAt,       \* index of the poll that returned Ok, 0 if none (history)
    sawTerminal,      \* a poll returned CodeExpired or DeviceDisabled (history)
    pollsAfterTerminal, \* verify calls made after such a response (history)
    savesFailed,      \* a config save of this run failed (history)
    budgetSet,        \* the polling loop was reached: max_attempts is computed (history)
    timedOut,         \* MSG_DEVICE_VERIFY_TIMEOUT was printed
    startNodeCalled,  \* start_node was entered
    exit,             \* result of main: "none", "ok", "err", "panic"
    hb,               \* heartbeat task: "off", "starting", "looping", "ended"
    task,             \* task-processing task: "off", "starting", "consuming", "ended"
    \* ---- TaskProcessor: the stream and the sink (environment) ----
    queue,            \* messages of the TASKS stream waiting to be delivered, in order
    sink,             \* what the result subjects have received, in order
    ackedOk,          \* per job: an acknowledgement of it reached the stream
    \* ---- TaskProcessor::start_processing ----
    tpc,              \* position of start_processing
    cur,              \* the message being handled, or NoMsg
    attempt,          \* `attempt` of the reconnection loop
    reconnected,      \* `reconnected`
    backoffs,         \* seconds slept in the current disconnect episode, in order (history)
    disconnects,      \* number of disconnects so far (history)
    taskRet,          \* what start_processing returned: "none", "ok", "err"
    \* ---- process_task / execute_task / text_to_image, for the current receipt ----
    result,           \* the TaskResult built, or NoResult
    retry,            \* `retry` of text_to_image
    delays,           \* milliseconds slept by text_to_image, in order (history)
    elapsed,          \* milliseconds since start_time
    sdCalls,          \* backend requests sent (history)
    pubAttempts,      \* publish_result calls (history)
    pubOk,            \* publish_result calls that succeeded (history)
    handlerRet,       \* what process_task returned: "none", "ok", "err"
    uuidCount,        \* number of Uuid::new_v4() values drawn
    \* ---- history over all receipts ----
    receipts,         \* number of messages received
    delivered,        \* per job: number of times it was received
    pubTried,         \* per job: number of publish_result calls made for it
    ackTried,         \* per job: number of msg.ack() calls made for it
    lastResp,         \* the response to the last backend request, or NoResp (history)
    \* ---- registration, history ----
    hadToken,         \* an access_token was stored when the process started
    initCalls,        \* number of init_device calls made
    \* ---- the heartbeat task ----
    hbpc,             \* position in the cycle of the heartbeat task
    hbToken,          \* current_access_token of the loop
    hbCfg,            \* config_manager.config of the heartbeat task (in memory)
    cycRefresh,       \* refresh_token calls made in the current cycle
    cycBeats,         \* send_heartbeat calls made in the current cycle
    cycFails,         \* the calls that failed in the current cycle
    beatToken,        \* the access token the heartbeat of the cycle was sent with
    cycAnswer,        \* what should_refresh_token answered in the current cycle
    beatResp,         \* what send_heartbeat returned in the current cycle
    \* ---- should_refresh_token on one input ----
    tok,              \* the token
    now,              \* the clock, in seconds since the epoch (-1: before it)
    threshold,        \* threshold_seconds
    srResult,         \* what should_refresh_token returned, or NoAnswer
    \* ---- one ConfigManager and the file as text ----
    cm,               \* config of the manager (in memory), all six fields
    file,             \* the config file: absent, or the JSON text of each key
    cpc,              \* position: new, ready, reloaded, failed
    fresh,            \* what a fresh ConfigManager::new() returned, or NoLoad
    allSaved,         \* every setter call so far returned Ok (history)
    setterCalls,      \* number of setter calls made
    \* ---- the two retry loops on the same inputs ----
    rtBudget,         \* the number of attempts allowed (0: loops not under study)
    rtFirst,          \* the first delay of text_to_image, in seconds
    rtOutcomes,       \* the outcome of each attempt
    sdTrace,          \* the attempts and sleeps of text_to_image, or NoTrace
    rcTrace           \* the attempts and sleeps of the reconnection, or NoTrace

mainVars == <<disk, cfg, mpc, diff, attempts, max_attempts, polls, verifyOkAt,
              sawTerminal, pollsAfterTerminal, savesFailed, budgetSet,
              timedOut, startNodeCalled, exit, hb, task>>

taskVars == <<queue, tpc, cur, receipts, delivered, ackedOk, pubTried, result, retry,
              delays, elapsed, sdCalls, pubAttempts, pubOk, handlerRet, sink,
              uuidCount, attempt, reconnected, backoffs, disconnects, taskRet,
              ackTried, lastResp>>

regVars == <<hadToken, initCalls>>

hbVars == <<hbpc, hbToken, hbCfg, cycRefresh, cycBeats, cycFails, beatToken,
            cycAnswer, beatResp>>

tokVars == <<tok, now, threshold, srResult>>

cfgVars == <<cm, file, cpc, fresh, allSaved, setterCalls>>

retryVars == <<rtBudget, rtFirst, rtOutcomes, sdTrace, rcTrace>>

----------------------------------------------------------------------------
(* config/mod.rs *)

\* NodeConfig::default(): nothing stored (base_url is a constant and left out)
DefaultConfig ==
    [device_code |-> None, user_code |-> None, access_token |-> None,
     refresh_token |-> None, node_id |-> None]

\* The config files this program can leave behind: each setter rewrites the
\* whole record, in the order set_device_code, set_user_code, set_tokens,
\* set_node_id, and any of them may be the last one that succeeded.
DiskStates ==
    { DefaultConfig,
      [DefaultConfig EXCEPT !.device_code = "dc"],
      [DefaultConfig EXCEPT !.device_code = "dc", !.user_code = "uc"],
      [DefaultConfig EXCEPT !.device_code = "dc", !.user_code = "uc",
                            !.access_token = "at0", !.refresh_token = "rt0"],
      [device_code |-> "dc", user_code |-> "uc", access_token |-> "at0",
       refresh_token |-> "rt0", node_id |-> "node1"] }

set_device_code(c, code) == [c EXCEPT !.device_code = code]
set_user_code(c, code) == [c EXCEPT !.user_code = code]
set_tokens(c, at, rt) == [c EXCEPT !.access_token = at, !.refresh_token = rt]
set_node_id(c, id) == [c EXCEPT !.node_id = id]

----------------------------------------------------------------------------
(* config/mod.rs: ConfigManager over the config file as JSON text *)

\* Option<String>: a string is a sequence of characters
NoneOpt == [some |-> FALSE, s |-> <<>>]
SomeOpt(s) == [some |-> TRUE, s |-> s]

\* API_BASE_URL, one symbol standing for its characters (none needs an escape)
API_BASE_URL == <<"https://zkom-backend.abo.network">>

\* NodeConfig::default() with all six fields
NodeConfigDefault ==
    [device_code |-> NoneOpt, user_code |-> NoneOpt, access_token |-> NoneOpt,
     refresh_token |-> NoneOpt, node_id |-> NoneOpt, base_url |-> API_BASE_URL]

update_access_token_bothTokens(c, at) == [c EXCEPT !.access_token = at, !.refresh_token = at]
\* self.config.access_token = Some(access_token)
update_access_token(c, at) == [c EXCEPT !.access_token = at]

\* the strings the setters are called with: empty, with a quote, with a
\* backslash before a letter that names an escape, with a line feed
ConfigStrings == { <<>>, <<"\"">>, <<"\\", "n">>, <<"\n", "a">> }

JsonEscapeChar_quoteOnly(c) == IF c = "\"" THEN <<"\\", "\"">> ELSE <<c>>

\* serde_json writes a quote, a backslash and a control character escaped
JsonEscapeChar(c) ==
    IF c = "\"" THEN <<"\\", "\"">>
    ELSE IF c = "\\" THEN <<"\\", "\\">>
    ELSE IF c = "\n" THEN <<"\\", "n">>
    ELSE <<c>>

RECURSIVE JsonEscape(_)
JsonEscape(s) == IF s = <<>> THEN <<>> ELSE JsonEscapeChar(Head(s)) \o JsonEscape(Tail(s))

\* Serialize for String and for Option<String>
JsonString(s) == <<"\"">> \o JsonEscape(s) \o <<"\"">>
JsonOption(o) == IF o.some THEN JsonString(o.s) ELSE <<"null">>

\* serde_json::to_string_pretty(&self.config): the value text of each key
to_string_pretty(c) ==
    [device_code |-> JsonOption(c.device_code), user_code |-> JsonOption(c.user_code),
     access_token |-> JsonOption(c.access_token),
     refresh_token |-> JsonOption(c.refresh_token),
     node_id |-> JsonOption(c.node_id), base_url |-> JsonString(c.base_url)]

JsonBad == [ok |-> FALSE, s |-> <<>>]

\* the character an escape stands for
JsonUnescapeChar(c) == IF c = "n" THEN "\n" ELSE c

\* the inside of a string literal read back: an escape is a backslash and one
\* of the known letters; a bare quote or control character is an error
RECURSIVE JsonUnescape(_)
JsonUnescape(t) ==
    IF t = <<>> THEN [ok |-> TRUE, s |-> <<>>]
    ELSE IF Head(t) = "\\"
         THEN IF Len(t) < 2 \/ t[2] \notin {"\"", "\\", "n"}
              THEN JsonBad
              ELSE LET rest == JsonUnescape(SubSeq(t, 3, Len(t)))
                   IN  IF rest.ok
                       THEN [ok |-> TRUE, s |-> <<JsonUnescapeChar(t[2])>> \o rest.s]
                       ELSE JsonBad
         ELSE IF Head(t) \in {"\"", "\n"}
              THEN JsonBad
              ELSE LET rest == JsonUnescape(Tail(t))
                   IN  IF rest.ok THEN [ok |-> TRUE, s |-> <<Head(t)>> \o rest.s]
                       ELSE JsonBad

\* Deserialize for String and for Option<String>
JsonParseString(t) ==
    IF Len(t) >= 2 /\ t[1] = "\"" /\ t[Len(t)] = "\""
    THEN JsonUnescape(SubSeq(t, 2, Len(t) - 1))
    ELSE JsonBad
JsonParseOption(t) ==
    IF t = <<"null">> THEN [ok |-> TRUE, v |-> NoneOpt]
    ELSE [ok |-> JsonParseString(t).ok, v |-> SomeOpt(JsonParseString(t).s)]

\* serde_json::from_str(&content)
from_str(text) ==
    LET d == JsonParseOption(text.device_code)
        u == JsonParseOption(text.user_code)
        a == JsonParseOption(text.access_token)
        r == JsonParseOption(text.refresh_token)
        n == JsonParseOption(text.node_id)
        b == JsonParseString(text.base_url)
    IN  IF d.ok /\ u.ok /\ a.ok /\ r.ok /\ n.ok /\ b.ok
        THEN [ok |-> TRUE,
              config |-> [device_code |-> d.v, user_code |-> u.v, access_token |-> a.v,
                          refresh_token |-> r.v, node_id |-> n.v, base_url |-> b.s]]
        ELSE [ok |-> FALSE, config |-> NodeConfigDefault]

\* no config file, and the file save() leaves
NoFile ==
    [exists |-> FALSE,
     text |-> [device_code |-> <<>>, user_code |-> <<>>, access_token |-> <<>>,
               refresh_token |-> <<>>, node_id |-> <<>>, base_url |-> <<>>]]
save(c) == [exists |-> TRUE, text |-> to_string_pretty(c)]

\* ConfigManager::new: the file parsed if it exists, the default otherwise
ConfigManagerNew(f) ==
    IF f.exists THEN from_str(f.text) ELSE [ok |-> TRUE, config |-> NodeConfigDefault]

\* no fresh load made
NoLoad == [ok |-> FALSE, config |-> NodeConfigDefault]

\* a file an earlier run left: a registered node, the base_url edited by hand
StoredNodeConfig ==
    [device_code |-> SomeOpt(<<"a">>), user_code |-> SomeOpt(<<"\"">>),
     access_token |-> SomeOpt(<<"a", "\\">>), refresh_token |-> SomeOpt(<<>>),
     node_id |-> NoneOpt, base_url |-> <<"http://localhost">>]

\* ConfigManager::new() of the manager under study
CfgNew ==
    /\ cpc = "new"
    /\ \/ /\ ConfigManagerNew(file).ok
          /\ cm' = ConfigManagerNew(file).config
          /\ cpc' = "ready"
       \/ /\ cpc' = "failed"           \* no config directory, or the read fails
          /\ cm' = cm
    /\ UNCHANGED <<file, fresh, allSaved, setterCalls>>
    /\ UNCHANGED <<mainVars, taskVars, regVars, hbVars, tokVars, retryVars>>

\* a setter: the field is assigned in memory, then save() writes the whole
\* record, or fails and leaves the file as it was
CfgSetter(newCfg) ==
    /\ cpc \in {"ready", "reloaded"}
    /\ setterCalls < MaxSetterCalls
    /\ setterCalls' = setterCalls + 1
    /\ cm' = newCfg
    /\ \/ /\ file' = save(newCfg)
          /\ allSaved' = allSaved
       \/ /\ file' = file
          /\ allSaved' = FALSE
    /\ fresh' = NoLoad
    /\ cpc' = "ready"
    /\ UNCHANGED <<mainVars, taskVars, regVars, hbVars, tokVars, retryVars>>

CfgSetDeviceCode == \E s \in ConfigStrings : CfgSetter(set_device_code(cm, SomeOpt(s)))

CfgSetUserCode == \E s \in ConfigStrings : CfgSetter(set_user_code(cm, SomeOpt(s)))

CfgSetTokens ==
    \E s, t \in ConfigStrings : CfgSetter(set_tokens(cm, SomeOpt(s), SomeOpt(t)))

CfgSetNodeId == \E s \in ConfigStrings : CfgSetter(set_node_id(cm, SomeOpt(s)))

CfgUpdateAccessToken ==
    \E s \in ConfigStrings : CfgSetter(update_access_token(cm, SomeOpt(s)))

\* a second ConfigManager::new() reads the file
CfgReload ==
    /\ cpc = "ready"
    /\ fresh' = ConfigManagerNew(file)
    /\ cpc' = "reloaded"
    /\ UNCHANGED <<cm, file, allSaved, setterCalls>>
    /\ UNCHANGED <<mainVars, taskVars, regVars, hbVars, tokVars, retryVars>>

----------------------------------------------------------------------------
(* device/mod.rs: the input and the output of should_refresh_token *)

\* no token in hand
NoToken == [segs |-> 0, b64 |-> FALSE, json |-> None, exp |-> None, expv |-> 0]

\* should_refresh_token not called
NoAnswer == [t |-> None, v |-> FALSE]

----------------------------------------------------------------------------
(* main.rs: main *)

\* i64 division of Rust: the quotient is truncated toward zero
TruncDiv(a, b) == IF a >= 0 THEN a \div b ELSE -((-a) \div b)

\* let max_attempts = (expires_at - now).num_seconds() / POLL_INTERVAL
BudgetOf(d) == TruncDiv(d, DEVICE_VERIFY_POLL_INTERVAL)

PollGuard_offByOne == attempts <= max_attempts
\* while attempts < max_attempts
PollGuard == attempts < max_attempts

TimeoutCheck_offByOne == attempts + 1 >= max_attempts
TimeoutCheck_strict == attempts > max_attempts
\* if attempts >= max_attempts
TimeoutCheck == attempts >= max_attempts

\* what device_manager.verify_device returns, by HTTP outcome
VerifyResponses == {"Ok", "CodeExpired", "DeviceDisabled", "VerifyError", "NetworkError"}
TerminalResponses == {"CodeExpired", "DeviceDisabled"}

MainExit(how) ==
    /\ mpc' = "done"
    /\ exit' = how

HasStoredToken_userCode(c) == c.user_code # None
\* config.access_token.is_some()
HasStoredToken(c) == c.access_token # None

\* check_environment, ConfigManager::new, and the test for a stored token
MainStart ==
    /\ mpc = "start"
    /\ \E r \in {"env_fail", "cfg_fail", "ok"} :
         IF r = "ok"
         THEN /\ cfg' = disk
              /\ mpc' = IF HasStoredToken(disk) THEN "start_node" ELSE "init"
              /\ exit' = exit
         ELSE /\ MainExit("err")
              /\ cfg' = cfg
    /\ UNCHANGED <<disk, diff, attempts, max_attempts, polls, verifyOkAt, sawTerminal,
                   pollsAfterTerminal, savesFailed, budgetSet, timedOut, startNodeCalled, hb, task>>
    /\ UNCHANGED <<taskVars, regVars, hbVars, tokVars, cfgVars, retryVars>>

\* collect_info fails; or init_device is called, and fails or answers
InitDevice ==
    /\ mpc = "init"
    /\ \/ /\ MainExit("err")
          /\ diff' = diff
          /\ initCalls' \in {initCalls, initCalls + 1}
       \/ /\ \E d \in (0 - MinDiffBelow) .. MaxDiff : diff' = d
          /\ mpc' = "save_device_code"
          /\ exit' = exit
          /\ initCalls' = initCalls + 1
    /\ UNCHANGED <<disk, cfg, attempts, max_attempts, polls, verifyOkAt, sawTerminal,
                   pollsAfterTerminal, savesFailed, budgetSet, timedOut, startNodeCalled, hb, task>>
    /\ UNCHANGED <<taskVars, hadToken, hbVars, tokVars, cfgVars, retryVars>>

\* A setter of ConfigManager followed by save(): the in-memory record changes
\* first; the file is rewritten whole, or the save fails and main returns Err.
SetterStep(at, newCfg, next) ==
    /\ mpc = at
    /\ cfg' = newCfg
    /\ \/ /\ disk' = newCfg
          /\ mpc' = next
          /\ UNCHANGED <<exit, savesFailed>>
       \/ /\ disk' = disk
          /\ savesFailed' = TRUE
          /\ MainExit("err")
    /\ UNCHANGED <<diff, attempts, max_attempts, polls, verifyOkAt, sawTerminal,
                   pollsAfterTerminal, budgetSet, timedOut, startNodeCalled, hb, task>>
    /\ UNCHANGED <<taskVars, regVars, hbVars, tokVars, cfgVars, retryVars>>

SetDeviceCode == SetterStep("save_device_code", set_device_code(cfg, "dc"), "save_user_code")

SetUserCode == SetterStep("save_user_code", set_user_code(cfg, "uc"), "budget")

\* the expiry is printed and parsed (unwrap), the budget computed once
ComputeBudget ==
    /\ mpc = "budget"
    /\ \/ /\ attempts' = 0
          /\ budgetSet' = TRUE
          /\ max_attempts' = BudgetOf(diff)
          /\ mpc' = "poll"
          /\ exit' = exit
       \/ /\ MainExit("panic")      \* expires_at is not RFC 3339: unwrap panics
          /\ UNCHANGED <<attempts, max_attempts, budgetSet>>
    /\ UNCHANGED <<disk, cfg, diff, polls, verifyOkAt, sawTerminal,
                   pollsAfterTerminal, savesFailed, timedOut, startNodeCalled, hb, task>>
    /\ UNCHANGED <<taskVars, regVars, hbVars, tokVars, cfgVars, retryVars>>

\* one iteration of the polling loop: verify_device and the match on its result
VerifyPoll ==
    /\ mpc = "poll"
    /\ PollGuard
    /\ polls' = polls + 1
    /\ pollsAfterTerminal' = IF sawTerminal THEN pollsAfterTerminal + 1 ELSE pollsAfterTerminal
    /\ \E r \in VerifyResponses :
         IF r = "Ok"
         THEN /\ mpc' = "save_tokens"
              /\ verifyOkAt' = polls + 1
              /\ UNCHANGED <<attempts, sawTerminal>>
         ELSE /\ attempts' = attempts + 1       \* every Err: warn, count, sleep
              /\ sawTerminal' = (sawTerminal \/ r \in TerminalResponses)
              /\ UNCHANGED <<mpc, verifyOkAt>>
    /\ UNCHANGED <<disk, cfg, diff, max_attempts, savesFailed, budgetSet, timedOut,
                   startNodeCalled, exit, hb, task>>
    /\ UNCHANGED <<taskVars, regVars, hbVars, tokVars, cfgVars, retryVars>>

\* the loop condition is false
PollLoopExit ==
    /\ mpc = "poll"
    /\ ~PollGuard
    /\ mpc' = "after_loop"
    /\ UNCHANGED <<disk, cfg, diff, attempts, max_attempts, polls, verifyOkAt, sawTerminal,
                   pollsAfterTerminal, savesFailed, budgetSet, timedOut, startNodeCalled, exit, hb, task>>
    /\ UNCHANGED <<taskVars, regVars, hbVars, tokVars, cfgVars, retryVars>>

SetTokens == SetterStep("save_tokens", set_tokens(cfg, "at0", "rt0"), "save_node_id")

\* set_node_id, then break
SetNodeId == SetterStep("save_node_id", set_node_id(cfg, "node1"), "after_loop")

\* if attempts >= max_attempts { timeout; return Ok(()) }  else start_node
AfterLoop ==
    /\ mpc = "after_loop"
    /\ IF TimeoutCheck
       THEN /\ timedOut' = TRUE
            /\ MainExit("ok")
       ELSE /\ mpc' = "start_node"
            /\ UNCHANGED <<timedOut, exit>>
    /\ UNCHANGED <<disk, cfg, diff, attempts, max_attempts, polls, verifyOkAt, sawTerminal,
                   pollsAfterTerminal, savesFailed, budgetSet, startNodeCalled, hb, task>>
    /\ UNCHANGED <<taskVars, regVars, hbVars, tokVars, cfgVars, retryVars>>

----------------------------------------------------------------------------
(* main.rs: start_node *)

ConfigIncomplete_tokenOnly(c) == c.access_token = None
\* one of the three matches on node_id, access_token, refresh_token finds None
ConfigIncomplete(c) == c.node_id = None \/ c.access_token = None \/ c.refresh_token = None

\* the three checks on the in-memory config, TaskProcessor::new, the two spawns
StartNode ==
    /\ mpc = "start_node"
    /\ startNodeCalled' = TRUE
    /\ IF ConfigIncomplete(cfg)
       THEN /\ MainExit("err")
            /\ UNCHANGED <<hb, task>>
       ELSE \/ /\ MainExit("err")            \* TaskProcessor::new fails
               /\ UNCHANGED <<hb, task>>
            \/ /\ hb' = "starting"
               /\ task' = "starting"
               /\ mpc' = "join"
               /\ exit' = exit
    /\ UNCHANGED <<disk, cfg, diff, attempts, max_attempts, polls, verifyOkAt, sawTerminal,
                   pollsAfterTerminal, savesFailed, budgetSet, timedOut>>
    /\ UNCHANGED <<taskVars, regVars, hbVars, tokVars, cfgVars, retryVars>>

\* The heartbeat task takes the access token start_node was given and creates
\* its own ConfigManager from the file: on failure it returns
HeartbeatTaskStart ==
    /\ hb = "starting"
    /\ \/ /\ hb' = "looping"
          /\ hbpc' = "CheckRefresh"
          /\ hbToken' = cfg.access_token
          /\ hbCfg' = disk
       \/ /\ hb' = "ended"
          /\ UNCHANGED <<hbpc, hbToken, hbCfg>>
    /\ UNCHANGED <<cycRefresh, cycBeats, cycFails, beatToken, cycAnswer, beatResp>>
    /\ UNCHANGED <<disk, cfg, mpc, diff, attempts, max_attempts, polls, verifyOkAt,
                   sawTerminal, pollsAfterTerminal, savesFailed, budgetSet, timedOut,
                   startNodeCalled, exit, task>>
    /\ UNCHANGED <<taskVars, regVars, tokVars, cfgVars, retryVars>>

\* start_processing subscribes (or fails), and later may end
TaskProcessingStep ==
    /\ \/ /\ task = "starting"
          /\ task' \in {"consuming", "ended"}
       \/ /\ task = "consuming"
          /\ task' = "ended"
    /\ UNCHANGED <<disk, cfg, mpc, diff, attempts, max_attempts, polls, verifyOkAt,
                   sawTerminal, pollsAfterTerminal, savesFailed, budgetSet, timedOut,
                   startNodeCalled, exit, hb>>
    /\ UNCHANGED <<taskVars, regVars, hbVars, tokVars, cfgVars, retryVars>>

JoinTasks_firstEnded ==
    /\ mpc = "join"
    /\ (hb = "ended" \/ task = "ended")
    /\ MainExit("ok")
    /\ UNCHANGED <<disk, cfg, diff, attempts, max_attempts, polls, verifyOkAt, sawTerminal,
                   pollsAfterTerminal, savesFailed, budgetSet, timedOut, startNodeCalled, hb, task>>
    /\ UNCHANGED <<taskVars, regVars, hbVars, tokVars, cfgVars, retryVars>>

\* try_join! of the two handles, then Ok(())
JoinTasks ==
    /\ mpc = "join"
    /\ hb = "ended"
    /\ task = "ended"
    /\ MainExit("ok")
    /\ UNCHANGED <<disk, cfg, diff, attempts, max_attempts, polls, verifyOkAt, sawTerminal,
                   pollsAfterTerminal, savesFailed, budgetSet, timedOut, startNodeCalled, hb, task>>
    /\ UNCHANGED <<taskVars, regVars, hbVars, tokVars, cfgVars, retryVars>>

----------------------------------------------------------------------------
(* main.rs: the loop of the heartbeat task *)

\* the access tokens a refresh can answer with: a well-formed one, and one
\* whose expiry cannot be read
RefreshedTokens == {"at1", "atX"}

\* get_token_expiry(token) is Ok
WellFormed(t) == t # "atX"

\* should_refresh_token(&current_access_token, THRESHOLD): Ok(true), Ok(false)
\* by the clock, or Err for a token whose expiry cannot be read
ShouldRefreshAnswers(t) == IF WellFormed(t) THEN {"true", "false"} ELSE {"err"}

\* what send_heartbeat can return: Ok, HeartbeatError("HTTP 401 .."), another
\* error whose text holds "401", an error whose text does not
HeartbeatResponses == {"Ok", "Http401", "ErrMentions401", "ErrOther"}

\* e.to_string().contains("401")
Mentions401(r) == r \in {"Http401", "ErrMentions401"}

HbAfterFailure_return(next) == "Returned"
\* every Err arm of the loop logs the error and goes on to `next`
HbAfterFailure(next) == next

\* what is the same in every step of the heartbeat task
HbFrame ==
    /\ hb = "looping"
    /\ UNCHANGED <<cfg, mpc, diff, attempts, max_attempts, polls, verifyOkAt,
                   sawTerminal, pollsAfterTerminal, savesFailed, budgetSet, timedOut,
                   startNodeCalled, exit, hb, task>>
    /\ UNCHANGED <<taskVars, regVars, tokVars, cfgVars, retryVars>>

\* if let Ok(should_refresh) = should_refresh_token(..) { .. } else { warn }
HbCheckRefresh ==
    /\ HbFrame
    /\ hbpc = "CheckRefresh"
    /\ \E a \in ShouldRefreshAnswers(hbToken) :
         /\ cycAnswer' = a
         /\ CASE a = "true" ->
                  /\ hbpc' = "Refresh"
                  /\ cycFails' = cycFails
             [] a = "false" ->
                  /\ hbpc' = "Collect"
                  /\ cycFails' = cycFails
             [] OTHER ->
                  /\ hbpc' = HbAfterFailure("Collect")
                  /\ cycFails' = cycFails \cup {"parse"}
    /\ UNCHANGED <<disk, hbToken, hbCfg, cycRefresh, cycBeats, beatToken, beatResp>>

\* refresh_token(&current_refresh_token): on Ok the loop's token is replaced
\* and update_access_token rewrites the file, or fails to
HbRefreshCall(next) ==
    /\ cycRefresh' = cycRefresh + 1
    /\ \/ \E t \in RefreshedTokens :
            /\ hbToken' = t
            /\ hbCfg' = update_access_token(hbCfg, t)
            /\ \/ /\ disk' = update_access_token(hbCfg, t)
                  /\ hbpc' = next
                  /\ cycFails' = cycFails
               \/ /\ disk' = disk
                  /\ hbpc' = HbAfterFailure(next)
                  /\ cycFails' = cycFails \cup {"save"}
       \/ /\ hbpc' = HbAfterFailure(next)
          /\ cycFails' = cycFails \cup {"refresh"}
          /\ UNCHANGED <<disk, hbToken, hbCfg>>
    /\ UNCHANGED <<cycBeats, beatToken, cycAnswer, beatResp>>

\* the refresh of the token about to expire
HbProactiveRefresh ==
    /\ HbFrame
    /\ hbpc = "Refresh"
    /\ HbRefreshCall("Collect")

HbCollect_sendAnyway ==
    /\ HbFrame
    /\ hbpc = "Collect"
    /\ hbpc' = "Send"
    /\ \/ cycFails' = cycFails
       \/ cycFails' = cycFails \cup {"telemetry"}
    /\ UNCHANGED <<disk, hbToken, hbCfg, cycRefresh, cycBeats, beatToken, cycAnswer,
                   beatResp>>

\* collect_gpu_metrics(): on Err nothing is sent in this cycle
HbCollect ==
    /\ HbFrame
    /\ hbpc = "Collect"
    /\ \/ /\ hbpc' = "Send"
          /\ cycFails' = cycFails
       \/ /\ hbpc' = HbAfterFailure("Sleep")
          /\ cycFails' = cycFails \cup {"telemetry"}
    /\ UNCHANGED <<disk, hbToken, hbCfg, cycRefresh, cycBeats, beatToken, cycAnswer,
                   beatResp>>

HbSend_storedToken ==
    /\ HbFrame
    /\ hbpc = "Send"
    /\ cycBeats' = cycBeats + 1
    /\ beatToken' = disk.access_token
    /\ \E r \in HeartbeatResponses :
         /\ beatResp' = r
         /\ CASE r = "Ok" ->
                  /\ hbpc' = "Sleep"
                  /\ cycFails' = cycFails
             [] Mentions401(r) ->
                  /\ hbpc' = HbAfterFailure("Refresh401")
                  /\ cycFails' = cycFails \cup {"heartbeat401"}
             [] OTHER ->
                  /\ hbpc' = HbAfterFailure("Sleep")
                  /\ cycFails' = cycFails \cup {"heartbeat"}
    /\ UNCHANGED <<disk, hbToken, hbCfg, cycRefresh, cycAnswer>>

\* send_heartbeat(&node_id, metrics, &current_access_token) and the match on it
HbSend ==
    /\ HbFrame
    /\ hbpc = "Send"
    /\ cycBeats' = cycBeats + 1
    /\ beatToken' = hbToken
    /\ \E r \in HeartbeatResponses :
         /\ beatResp' = r
         /\ CASE r = "Ok" ->
                  /\ hbpc' = "Sleep"
                  /\ cycFails' = cycFails
             [] Mentions401(r) ->
                  /\ hbpc' = HbAfterFailure("Refresh401")
                  /\ cycFails' = cycFails \cup {"heartbeat401"}
             [] OTHER ->
                  /\ hbpc' = HbAfterFailure("Sleep")
                  /\ cycFails' = cycFails \cup {"heartbeat"}
    /\ UNCHANGED <<disk, hbToken, hbCfg, cycRefresh, cycAnswer>>

\* the refresh after a heartbeat error that holds "401"
HbReactiveRefresh ==
    /\ HbFrame
    /\ hbpc = "Refresh401"
    /\ HbRefreshCall("Sleep")

\* sleep(heartbeat_interval), then the next iteration of the loop
HbSleep ==
    /\ HbFrame
    /\ hbpc = "Sleep"
    /\ hbpc' = "CheckRefresh"
    /\ cycRefresh' = 0
    /\ cycBeats' = 0
    /\ cycFails' = {}
    /\ beatToken' = None
    /\ cycAnswer' = "none"
    /\ beatResp' = "none"
    /\ UNCHANGED <<disk, hbToken, hbCfg>>

----------------------------------------------------------------------------
(* stable_diffusion/mod.rs: text_to_image *)

RECURSIVE Pow2(_)
Pow2(n) == IF n = 0 THEN 1 ELSE 2 * Pow2(n - 1)

\* What one request to the backend can produce:
\*   NetErr            send() failed
\*   BodyErr           a response whose body could not be read (text().await?)
\*   Http5xx           a server-error status
\*   Http4xxTransient  another non-success status, body with a transient signature
\*   Http4xxFatal      another non-success status, no such signature
\*   BadJson           a success status, body not an ImageResponse
\*   Images            a success status with n images
SdResponses ==
    { [kind |-> k, n |-> 0] :
        k \in {"NetErr", "BodyErr", "Http5xx", "Http4xxTransient", "Http4xxFatal", "BadJson"} }
        \cup { [kind |-> "Images", n |-> n] : n \in 0 .. MaxImages }

\* no request sent yet
NoResp == [kind |-> None, n |-> 0]

\* retry < MAX_RETRIES - 1
MayRetry(r) == r < MAX_RETRIES - 1

RetryError_any(resp) == resp.kind \in {"Http5xx", "Http4xxTransient", "Http4xxFatal"}
\* let retry_error = error_text.contains(..) || .. || status.is_server_error()
RetryError(resp) == resp.kind \in {"Http5xx", "Http4xxTransient"}

RetryDelay_fromAttempt(r) == INITIAL_RETRY_DELAY_MS * Pow2(r)
\* INITIAL_RETRY_DELAY_MS * 2u64.pow(retry - 1), slept when retry > 0
RetryDelay(r) == INITIAL_RETRY_DELAY_MS * Pow2(r - 1)

Continue == [t |-> "continue", images |-> 0, e |-> None]
ReturnOk(n) == [t |-> "ok", images |-> n, e |-> None]
ReturnErr(e) == [t |-> "err", images |-> 0, e |-> e]

\* The body of the for loop after the request: "continue", or what is returned
SdOutcome(resp, r) ==
    CASE resp.kind = "NetErr" ->
           IF MayRetry(r) THEN Continue ELSE ReturnErr(resp.kind)
      [] resp.kind = "BodyErr" -> ReturnErr(resp.kind)
      [] resp.kind \in {"Http5xx", "Http4xxTransient", "Http4xxFatal"} ->
           IF RetryError(resp) /\ MayRetry(r) THEN Continue ELSE ReturnErr(resp.kind)
      [] resp.kind = "BadJson" ->
           IF MayRetry(r) THEN Continue ELSE ReturnErr(resp.kind)
      [] OTHER ->
           IF resp.n = 0 /\ MayRetry(r) THEN Continue ELSE ReturnOk(resp.n)

----------------------------------------------------------------------------
(* device/mod.rs: should_refresh_token and get_token_expiry *)

\* u64::MAX, and the modulus of wrapping u64 arithmetic
U64Max == Pow2(WordBits) - 1
U64Modulus == Pow2(WordBits)

\* A token by what get_token_expiry can see of it:
\*   segs  number of dot-separated segments
\*   b64   the second segment is base64url without padding
\*   json  the decoded payload: "invalid" (no JSON), "scalar", "array", "object"
\*   exp   payload["exp"]: "absent", "null", "string", "negative", "fraction",
\*         or "u64" with the value expv
TokenOf(sg, b, j, e, v) == [segs |-> sg, b64 |-> b, json |-> j, exp |-> e, expv |-> v]

Tokens ==
    { TokenOf(sg, TRUE, "object", "u64", 0) : sg \in (1 .. MaxSegs) \ {3} }
      \cup { TokenOf(3, FALSE, "object", "u64", 0) }
      \cup { TokenOf(3, TRUE, j, "absent", 0) : j \in {"invalid", "scalar", "array", "object"} }
      \cup { TokenOf(3, TRUE, "object", e, 0) : e \in {"null", "string", "negative", "fraction"} }
      \cup { TokenOf(3, TRUE, "object", "u64", v) : v \in 0 .. U64Max }

ErrAnswer == [t |-> "TokenParseError", v |-> FALSE]
PanicAnswer == [t |-> "panic", v |-> FALSE]
BoolAnswer(b) == [t |-> "bool", v |-> b]

ExpiryErr == [ok |-> FALSE, v |-> 0]
ExpiryOk(v) == [ok |-> TRUE, v |-> v]

GetTokenExpiry_noSegmentCheck(t) ==
    IF t.b64 /\ t.json = "object" /\ t.exp = "u64" THEN ExpiryOk(t.expv) ELSE ExpiryErr
\* get_token_expiry: split('.') must give 3 parts, parts[1] must decode, the
\* bytes must be JSON, and payload_json["exp"].as_u64() must be Some
GetTokenExpiry(t) ==
    IF t.segs # 3 THEN ExpiryErr
    ELSE IF ~t.b64 THEN ExpiryErr
    ELSE IF t.json = "invalid" THEN ExpiryErr
    ELSE IF t.json # "object" \/ t.exp # "u64" THEN ExpiryErr
    ELSE ExpiryOk(t.expv)

\* should_refresh_token: the answers it can give for token t at clock n with
\* threshold th.  `now + threshold_seconds` is an unchecked u64 addition: on
\* overflow a build with overflow checks panics and one without wraps.
ShouldRefreshToken(t, n, th) ==
    LET e == GetTokenExpiry(t) IN
    IF ~e.ok THEN {ErrAnswer}
    ELSE IF n < 0 THEN {ErrAnswer}
    ELSE IF n + th > U64Max
         THEN {PanicAnswer, BoolAnswer(e.v <= (n + th) % U64Modulus)}
         ELSE {BoolAnswer(e.v <= n + th)}

\* should_refresh_token is called on the input and returns
ShouldRefreshStep ==
    /\ tok # NoToken
    /\ srResult = NoAnswer
    /\ srResult' \in ShouldRefreshToken(tok, now, threshold)
    /\ UNCHANGED <<tok, now, threshold>>
    /\ UNCHANGED <<mainVars, taskVars, regVars, hbVars, cfgVars, retryVars>>

----------------------------------------------------------------------------
(* task/mod.rs: the messages and the results *)

PayloadKinds == {"Unparseable", "WrongNode", "NoPrompt", "PromptNotString", "Good"}

JobIds == 1 .. MaxJobs

\* a message of the stream: job j with a payload of one kind
Msg(j, k) == [id |-> j, payload |-> k]

\* no message in hand
NoMsg == [id |-> 0, payload |-> None]

\* the task_id a parseable payload of job j carries
TaskIdOf(j) == <<"task", j>>

\* Uuid::new_v4().to_string(): the n-th value drawn
FreshUuid(n) == <<"uuid", n>>

ImageUrls_firstOnly(n) == [i \in 1 .. (IF n > 1 THEN 1 ELSE n) |-> <<"data:image/png;base64", i>>]
\* image_urls: one data URL per image
ImageUrls(n) == [i \in 1 .. n |-> <<"data:image/png;base64", i>>]

\* Option<Vec<String>>
NoUrls == [some |-> FALSE, urls |-> <<>>]
SomeUrls(us) == [some |-> TRUE, urls |-> us]

\* no TaskResult built yet
NoResult ==
    [task_id |-> <<"none", 0>>, status |-> "none", duration_ms |-> 0,
     result_urls |-> NoUrls, error_stack |-> None, node_id |-> None, retries |-> 0]

\* serde_json::from_slice::<TaskMessage>(&msg.payload) is Ok
ParseOk(m) == m.payload # "Unparseable"

NodeIdValid_always(m) == TRUE
\* !(task_message.node_id != self.config.node_id)
NodeIdValid(m) == m.payload # "WrongNode"

PromptCheck_missingAllowed(m) ==
    CASE m.payload = "PromptNotString" -> "Prompt must be a string"
      [] OTHER -> "ok"

\* execute_task before the backend call: the prompt is extracted
PromptCheck(m) ==
    CASE m.payload = "NoPrompt" -> "Missing required parameter: prompt"
      [] m.payload = "PromptNotString" -> "Prompt must be a string"
      [] OTHER -> "ok"

\* the TaskResult of the invalid-node branch
InvalidNodeResult(m) ==
    [task_id |-> TaskIdOf(m.id), status |-> "failed", duration_ms |-> 0,
     result_urls |-> NoUrls, error_stack |-> "Invalid node ID",
     node_id |-> "node1", retries |-> 0]

CompletedResult_countRetries(m, n) ==
    [task_id |-> TaskIdOf(m.id), status |-> "completed", duration_ms |-> 3000,
     result_urls |-> SomeUrls(ImageUrls(n)), error_stack |-> None,
     node_id |-> "node1", retries |-> retry]
\* the TaskResult of the Ok arm of execute_task
CompletedResult(m, n) ==
    [task_id |-> TaskIdOf(m.id), status |-> "completed", duration_ms |-> 3000,
     result_urls |-> SomeUrls(ImageUrls(n)), error_stack |-> None,
     node_id |-> "node1", retries |-> 0]

\* the TaskResult of the Err arm of execute_task
FailedResult(m, e, ms) ==
    [task_id |-> TaskIdOf(m.id), status |-> "failed", duration_ms |-> ms,
     result_urls |-> NoUrls, error_stack |-> e,
     node_id |-> "node1", retries |-> 0]

ParseErrorResult_staleId(n) ==
    [task_id |-> FreshUuid(0), status |-> "failed", duration_ms |-> 0,
     result_urls |-> NoUrls, error_stack |-> "Failed to parse task message",
     node_id |-> "node1", retries |-> 0]
\* the TaskResult of the parse-error arm, with the n-th fresh task id
ParseErrorResult(n) ==
    [task_id |-> FreshUuid(n), status |-> "failed", duration_ms |-> 0,
     result_urls |-> NoUrls, error_stack |-> "Failed to parse task message",
     node_id |-> "node1", retries |-> 0]

\* What the sink keeps of a result published to results.{task_id}: the subject
\* and the status of the payload, with the job and the receipt it came from
SinkEntry(m, n, r) ==
    [job |-> m.id, receipt |-> n, subject |-> r.task_id, status |-> r.status]

SinkAfterPublish_twice(ok, entry) == IF ok THEN sink \o <<entry, entry>> ELSE sink
\* jetstream.publish(subject, payload).await: the sink gets the result, or not
SinkAfterPublish(ok, entry) == IF ok THEN Append(sink, entry) ELSE sink

PublishReturn_swallow(ok) == "ok"
\* publish_result(..).await? : an error of the publish is returned to the caller
PublishReturn(ok) == IF ok THEN "ok" ELSE "err"

AckReady_early == tpc \in {"Handle", "Ack"}
\* msg.ack() is reached once process_task has returned
AckReady == tpc = "Ack"

\* a message whose acknowledgement did not reach the stream is delivered again
RedeliveryAfterFailedAck(q, m) == Append(q, m)

----------------------------------------------------------------------------
(* task/mod.rs: TaskProcessor::start_processing and process_task *)

handlerVars == <<result, retry, delays, elapsed, sdCalls, pubAttempts, pubOk,
                 handlerRet, uuidCount, lastResp>>
reconnectVars == <<attempt, reconnected, backoffs, disconnects>>

\* get_stream, get_or_create_consumer, messages: each ends the routine with `?`
Subscribe ==
    /\ tpc = "Subscribe"
    /\ \/ /\ tpc' = "Consuming"
          /\ taskRet' = taskRet
       \/ /\ tpc' = "Ended"
          /\ taskRet' = "err"
    /\ UNCHANGED <<queue, sink, ackedOk, cur, receipts, delivered, pubTried, ackTried>>
    /\ UNCHANGED <<handlerVars, reconnectVars, mainVars, regVars, hbVars, tokVars, cfgVars, retryVars>>

MayPull_whileExecuting == tpc \in {"Consuming", "Sd"}

\* messages.next() is awaited at the head of the inner loop only, after the
\* body of the previous iteration has run to its end
MayPull == tpc = "Consuming"

\* messages.next() yields Ok(msg): the next message of the stream
Receive ==
    /\ MayPull
    /\ receipts < MaxReceipts
    /\ queue # <<>>
    /\ cur' = Head(queue)
    /\ queue' = Tail(queue)
    /\ receipts' = receipts + 1
    /\ delivered' = [delivered EXCEPT ![Head(queue).id] = @ + 1]
    /\ tpc' = "Handle"
    /\ result' = NoResult
    /\ retry' = 0
    /\ delays' = <<>>
    /\ elapsed' = 0
    /\ sdCalls' = 0
    /\ pubAttempts' = 0
    /\ pubOk' = 0
    /\ handlerRet' = "none"
    /\ lastResp' = NoResp
    /\ UNCHANGED <<sink, ackedOk, pubTried, ackTried, uuidCount, taskRet, reconnectVars,
                   mainVars, regVars, hbVars, tokVars, cfgVars, retryVars>>

\* messages.next() yields Err(e), or None: the inner loop is left
ReceiveError ==
    /\ tpc = "Consuming"
    /\ disconnects < MaxDisconnects
    /\ disconnects' = disconnects + 1
    /\ backoffs' = <<>>
    /\ tpc' = "Disconnected"
    /\ UNCHANGED <<queue, sink, ackedOk, cur, receipts, delivered, pubTried, ackTried,
                   attempt, reconnected, taskRet, handlerVars, mainVars, regVars, hbVars, tokVars, cfgVars, retryVars>>

\* process_task up to the first await of the backend or of the publish
ProcessTask ==
    /\ tpc = "Handle"
    /\ IF ~ParseOk(cur)
       THEN /\ result' = ParseErrorResult(uuidCount + 1)
            /\ uuidCount' = uuidCount + 1
            /\ tpc' = "Publish"
       ELSE /\ uuidCount' = uuidCount
            /\ IF ~NodeIdValid(cur)
               THEN /\ result' = InvalidNodeResult(cur)
                    /\ tpc' = "Publish"
               ELSE IF PromptCheck(cur) # "ok"
                    THEN /\ result' = FailedResult(cur, PromptCheck(cur), elapsed)
                         /\ tpc' = "Publish"
                    ELSE /\ result' = result
                         /\ tpc' = "Sd"
    /\ UNCHANGED <<queue, sink, ackedOk, cur, receipts, delivered, pubTried, ackTried,
                   retry, delays, elapsed, sdCalls, pubAttempts, pubOk, handlerRet,
                   lastResp, taskRet, reconnectVars, mainVars, regVars, hbVars, tokVars, cfgVars, retryVars>>

\* one iteration of the retry loop of text_to_image, and, when it returns,
\* the match of process_task on what execute_task returned
SdAttempt ==
    /\ tpc = "Sd"
    /\ LET slept == IF retry > 0 THEN <<RetryDelay(retry)>> ELSE <<>>
           ms == elapsed + (IF retry > 0 THEN RetryDelay(retry) ELSE 0) + CallMs
       IN  /\ delays' = delays \o slept
           /\ elapsed' = ms
           /\ sdCalls' = sdCalls + 1
           /\ \E resp \in SdResponses :
                LET o == SdOutcome(resp, retry) IN
                /\ lastResp' = resp
                /\ CASE o.t = "continue" ->
                       /\ retry' = retry + 1
                       /\ UNCHANGED <<result, tpc>>
                  [] o.t = "ok" ->
                       /\ result' = CompletedResult(cur, o.images)
                       /\ tpc' = "Publish"
                       /\ retry' = retry
                  [] OTHER ->
                       /\ result' = FailedResult(cur, o.e, ms)
                       /\ tpc' = "Publish"
                       /\ retry' = retry
    /\ UNCHANGED <<queue, sink, ackedOk, cur, receipts, delivered, pubTried, ackTried,
                   pubAttempts, pubOk, handlerRet, uuidCount, taskRet,
                   reconnectVars, mainVars, regVars, hbVars, tokVars, cfgVars, retryVars>>

\* publish_result(&result).await? and the return of process_task
PublishResult ==
    /\ tpc = "Publish"
    /\ \E ok \in BOOLEAN :
         /\ sink' = SinkAfterPublish(ok, SinkEntry(cur, receipts, result))
         /\ pubOk' = IF ok THEN pubOk + 1 ELSE pubOk
         /\ handlerRet' = PublishReturn(ok)
    /\ pubAttempts' = pubAttempts + 1
    /\ pubTried' = [pubTried EXCEPT ![cur.id] = @ + 1]
    /\ tpc' = "Ack"
    /\ UNCHANGED <<queue, ackedOk, cur, receipts, delivered, ackTried, result, retry,
                   delays, elapsed, sdCalls, uuidCount, lastResp, taskRet, reconnectVars, mainVars, regVars, hbVars, tokVars, cfgVars, retryVars>>

\* an Err of process_task is logged; msg.ack().await, an Err of it is logged;
\* the message and the locals of process_task are gone
AckMessage ==
    /\ AckReady
    /\ \E ok \in BOOLEAN :
         /\ ackedOk' = IF ok THEN [ackedOk EXCEPT ![cur.id] = TRUE] ELSE ackedOk
         /\ queue' = IF ok THEN queue ELSE RedeliveryAfterFailedAck(queue, cur)
    /\ ackTried' = [ackTried EXCEPT ![cur.id] = @ + 1]
    /\ tpc' = "Consuming"
    /\ cur' = NoMsg
    /\ result' = NoResult
    /\ retry' = 0
    /\ delays' = <<>>
    /\ elapsed' = 0
    /\ sdCalls' = 0
    /\ pubAttempts' = 0
    /\ pubOk' = 0
    /\ handlerRet' = "none"
    /\ lastResp' = NoResp
    /\ UNCHANGED <<sink, receipts, delivered, pubTried, uuidCount, taskRet,
                   reconnectVars, mainVars, regVars, hbVars, tokVars, cfgVars, retryVars>>

MoreAttempts_inclusive(a) == a <= RETRY_COUNT

\* for attempt in 1..=retry_count: another iteration follows iteration a
MoreAttempts(a) == a < RETRY_COUNT

SettleDelay_carryCount ==
    /\ tpc = "Disconnected"
    /\ backoffs' = Append(backoffs, SETTLE_DELAY_S)
    /\ attempt' = disconnects
    /\ reconnected' = FALSE
    /\ tpc' = "Reconnecting"
    /\ UNCHANGED <<queue, sink, ackedOk, cur, receipts, delivered, pubTried, ackTried,
                   disconnects, taskRet, handlerVars, mainVars, regVars, hbVars, tokVars, cfgVars, retryVars>>

\* sleep 5 s, then retry_count = 3, reconnected = false, attempt = 1
SettleDelay ==
    /\ tpc = "Disconnected"
    /\ backoffs' = Append(backoffs, SETTLE_DELAY_S)
    /\ attempt' = 1
    /\ reconnected' = FALSE
    /\ tpc' = "Reconnecting"
    /\ UNCHANGED <<queue, sink, ackedOk, cur, receipts, delivered, pubTried, ackTried,
                   disconnects, taskRet, handlerVars, mainVars, regVars, hbVars, tokVars, cfgVars, retryVars>>

\* one iteration of the reconnection loop: the three calls succeed (break), or
\* one fails and the backoff is slept; after the last iteration the main loop
\* is left if !reconnected, and start_processing returns Ok(())
ReconnectAttempt ==
    /\ tpc = "Reconnecting"
    /\ \/ /\ tpc' = "Consuming"          \* reconnected = true; break
          /\ reconnected' = FALSE         \* the locals of the episode are gone
          /\ attempt' = 0
          /\ backoffs' = <<>>
          /\ taskRet' = taskRet
       \/ /\ backoffs' = Append(backoffs, Pow2(attempt))
          /\ reconnected' = reconnected
          /\ IF MoreAttempts(attempt)
             THEN /\ attempt' = attempt + 1
                  /\ UNCHANGED <<tpc, taskRet>>
             ELSE /\ attempt' = attempt
                  /\ tpc' = "Ended"
                  /\ taskRet' = "ok"
    /\ UNCHANGED <<queue, sink, ackedOk, cur, receipts, delivered, pubTried, ackTried,
                   disconnects, handlerVars, mainVars, regVars, hbVars, tokVars, cfgVars, retryVars>>

----------------------------------------------------------------------------
(* The two retry loops, with the budget and the first delay as parameters:
   stable_diffusion/mod.rs `for retry in 0..MAX_RETRIES` and task/mod.rs
   `for attempt in 1..=retry_count`.  An outcome is "ok" or "fail" (a failure
   the loop retries); a trace is the sequence of attempts and sleeps made. *)

AttemptEv(k) == [ev |-> "attempt", k |-> k, d |-> 0]
SleepEv(k, d) == [ev |-> "sleep", k |-> k, d |-> d]

\* text_to_image from iteration `retry` on: the sleep at the head of every
\* iteration but the first, the request, and `continue` after a failure while
\* retry < budget - 1; every other outcome returns
RECURSIVE SdLoopFrom(_, _, _, _)
SdLoopFrom(r, budget, first, outs) ==
    IF r >= budget THEN <<>>
    ELSE (IF r > 0 THEN <<SleepEv(r, first * Pow2(r - 1))>> ELSE <<>>)
         \o <<AttemptEv(r + 1)>>
         \o (IF outs[r + 1] = "fail" /\ r < budget - 1
             THEN SdLoopFrom(r + 1, budget, first, outs)
             ELSE <<>>)

SdLoopTrace(budget, first, outs) == SdLoopFrom(0, budget, first, outs)

\* the delay 2u64.pow(attempt) of the reconnection, in seconds
ReconnectBackoff(a) == Pow2(a)

\* the first delay of the reconnection: 2^1
RECONNECT_FIRST_DELAY_S == 2

\* the reconnection from iteration `a` on: the three calls, `break` on
\* success, else the backoff at the foot of the iteration
RECURSIVE ReconnectLoopFrom(_, _, _)
ReconnectLoopFrom(a, budget, outs) ==
    IF a > budget THEN <<>>
    ELSE <<AttemptEv(a)>>
         \o (IF outs[a] = "ok"
             THEN <<>>
             ELSE <<SleepEv(a, ReconnectBackoff(a))>>
                  \o ReconnectLoopFrom(a + 1, budget, outs))

ReconnectLoopTrace(budget, outs) == ReconnectLoopFrom(1, budget, outs)

\* the loops not run
NoTrace == <<[ev |-> "none", k |-> 0, d |-> 0]>>

\* text_to_image runs on the outcomes
RunSdLoop ==
    /\ rtBudget > 0
    /\ sdTrace = NoTrace
    /\ sdTrace' = SdLoopTrace(rtBudget, rtFirst, rtOutcomes)
    /\ UNCHANGED <<rtBudget, rtFirst, rtOutcomes, rcTrace>>
    /\ UNCHANGED <<mainVars, taskVars, regVars, hbVars, tokVars, cfgVars>>

\* the reconnection runs on the outcomes
RunReconnectLoop ==
    /\ rtBudget > 0
    /\ rcTrace = NoTrace
    /\ rcTrace' = ReconnectLoopTrace(rtBudget, rtOutcomes)
    /\ UNCHANGED <<rtBudget, rtFirst, rtOutcomes, sdTrace>>
    /\ UNCHANGED <<mainVars, taskVars, regVars, hbVars, tokVars, cfgVars>>

----------------------------------------------------------------------------
vars == <<mainVars, taskVars, regVars, hbVars, tokVars, cfgVars, retryVars>>

\* start_processing not yet entered, the stream holding the messages q
TaskInitWith(q) ==
    /\ queue = q
    /\ sink = <<>>
    /\ ackedOk = [j \in JobIds |-> FALSE]
    /\ tpc = "Subscribe"
    /\ cur = NoMsg
    /\ attempt = 0
    /\ reconnected = FALSE
    /\ backoffs = <<>>
    /\ disconnects = 0
    /\ taskRet = "none"
    /\ result = NoResult
    /\ retry = 0
    /\ delays = <<>>
    /\ elapsed = 0
    /\ sdCalls = 0
    /\ pubAttempts = 0
    /\ pubOk = 0
    /\ handlerRet = "none"
    /\ uuidCount = 0
    /\ receipts = 0
    /\ delivered = [j \in JobIds |-> 0]
    /\ pubTried = [j \in JobIds |-> 0]
    /\ ackTried = [j \in JobIds |-> 0]
    /\ lastResp = NoResp

\* the heartbeat task not started
HbIdle ==
    /\ hbpc = "Idle"
    /\ hbToken = None
    /\ hbCfg = DefaultConfig
    /\ cycRefresh = 0
    /\ cycBeats = 0
    /\ cycFails = {}
    /\ beatToken = None
    /\ cycAnswer = "none"
    /\ beatResp = "none"

\* the heartbeat task at the start of its first cycle, its ConfigManager
\* created from the file c
HbRunning(c) ==
    /\ hbpc = "CheckRefresh"
    /\ hbToken = c.access_token
    /\ hbCfg = c
    /\ cycRefresh = 0
    /\ cycBeats = 0
    /\ cycFails = {}
    /\ beatToken = None
    /\ cycAnswer = "none"
    /\ beatResp = "none"

\* should_refresh_token not called
TokIdle ==
    /\ tok = NoToken
    /\ now = 0
    /\ threshold = 0
    /\ srResult = NoAnswer

\* the retry loops not under study
RetryIdle ==
    /\ rtBudget = 0
    /\ rtFirst = 0
    /\ rtOutcomes = <<>>
    /\ sdTrace = NoTrace
    /\ rcTrace = NoTrace

\* no ConfigManager under study
CfgIdle ==
    /\ cm = NodeConfigDefault
    /\ file = NoFile
    /\ cpc = "idle"
    /\ fresh = NoLoad
    /\ allSaved = TRUE
    /\ setterCalls = 0

\* the process at its start, the config file in any state a run can leave
MainInit ==
    /\ disk \in DiskStates
    /\ hadToken = (disk.access_token # None)
    /\ initCalls = 0
    /\ HbIdle
    /\ TokIdle
    /\ CfgIdle
    /\ RetryIdle
    /\ cfg = DefaultConfig
    /\ mpc = "start"
    /\ diff = 0
    /\ attempts = 0
    /\ max_attempts = 0
    /\ polls = 0
    /\ verifyOkAt = 0
    /\ sawTerminal = FALSE
    /\ pollsAfterTerminal = 0
    /\ savesFailed = FALSE
    /\ budgetSet = FALSE
    /\ timedOut = FALSE
    /\ startNodeCalled = FALSE
    /\ exit = "none"
    /\ hb = "off"
    /\ task = "off"
    /\ TaskInitWith(<<>>)

MainNext ==
    \/ MainStart
    \/ InitDevice
    \/ SetDeviceCode
    \/ SetUserCode
    \/ ComputeBudget
    \/ VerifyPoll
    \/ PollLoopExit
    \/ SetTokens
    \/ SetNodeId
    \/ AfterLoop
    \/ StartNode
    \/ HeartbeatTaskStart
    \/ TaskProcessingStep
    \/ JoinTasks

SpecMain == MainInit /\ [][MainNext]_vars

HbNext ==
    \/ HbCheckRefresh
    \/ HbProactiveRefresh
    \/ HbCollect
    \/ HbSend
    \/ HbReactiveRefresh
    \/ HbSleep

NodeNext == MainNext \/ HbNext

\* main, start_node and the heartbeat task
SpecNode == MainInit /\ [][NodeNext]_vars

\* start_node has just spawned the heartbeat task of a registered node
HbInit ==
    /\ disk = [device_code |-> "dc", user_code |-> "uc", access_token |-> "at0",
               refresh_token |-> "rt0", node_id |-> "node1"]
    /\ cfg = disk
    /\ mpc = "join"
    /\ diff = 0
    /\ attempts = 0
    /\ max_attempts = 0
    /\ polls = 0
    /\ verifyOkAt = 0
    /\ sawTerminal = FALSE
    /\ pollsAfterTerminal = 0
    /\ savesFailed = FALSE
    /\ budgetSet = FALSE
    /\ timedOut = FALSE
    /\ startNodeCalled = TRUE
    /\ exit = "none"
    /\ hb = "starting"
    /\ task = "starting"
    /\ hadToken = TRUE
    /\ initCalls = 0
    /\ HbIdle
    /\ TokIdle
    /\ CfgIdle
    /\ RetryIdle
    /\ TaskInitWith(<<>>)

HeartbeatNext == HeartbeatTaskStart \/ HbNext

\* the heartbeat task of a registered node is about to call
\* should_refresh_token, with any token, clock and threshold
TokenInit ==
    /\ disk = [device_code |-> "dc", user_code |-> "uc", access_token |-> "at0",
               refresh_token |-> "rt0", node_id |-> "node1"]
    /\ cfg = disk
    /\ mpc = "join"
    /\ diff = 0
    /\ attempts = 0
    /\ max_attempts = 0
    /\ polls = 0
    /\ verifyOkAt = 0
    /\ sawTerminal = FALSE
    /\ pollsAfterTerminal = 0
    /\ savesFailed = FALSE
    /\ budgetSet = FALSE
    /\ timedOut = FALSE
    /\ startNodeCalled = TRUE
    /\ exit = "none"
    /\ hb = "looping"
    /\ task = "starting"
    /\ hadToken = TRUE
    /\ initCalls = 0
    /\ HbRunning(disk)
    /\ TaskInitWith(<<>>)
    /\ tok \in Tokens
    /\ now \in (0 - 1) .. U64Max
    /\ threshold \in 0 .. U64Max
    /\ srResult = NoAnswer
    /\ CfgIdle
    /\ RetryIdle

TokenNext == ShouldRefreshStep

SpecToken == TokenInit /\ [][TokenNext]_vars

\* every call of the loop returns, and the sleep ends
SpecHeartbeat == HbInit /\ [][HeartbeatNext]_vars /\ WF_vars(HeartbeatNext)

\* start_node has spawned the task of start_processing (a registered node);
\* the stream holds MaxJobs jobs, each with a payload of any kind
TaskInit ==
    /\ disk = [device_code |-> "dc", user_code |-> "uc", access_token |-> "at0",
               refresh_token |-> "rt0", node_id |-> "node1"]
    /\ cfg = disk
    /\ mpc = "join"
    /\ diff = 0
    /\ attempts = 0
    /\ max_attempts = 0
    /\ polls = 0
    /\ verifyOkAt = 0
    /\ sawTerminal = FALSE
    /\ pollsAfterTerminal = 0
    /\ savesFailed = FALSE
    /\ budgetSet = FALSE
    /\ timedOut = FALSE
    /\ startNodeCalled = TRUE
    /\ exit = "none"
    /\ hb = "looping"
    /\ task = "starting"
    /\ hadToken = TRUE
    /\ initCalls = 0
    /\ HbRunning(disk)
    /\ TokIdle
    /\ CfgIdle
    /\ RetryIdle
    /\ \E ks \in [JobIds -> PayloadKinds] :
         TaskInitWith([j \in JobIds |-> Msg(j, ks[j])])

TaskNext ==
    \/ Subscribe
    \/ Receive
    \/ ReceiveError
    \/ ProcessTask
    \/ SdAttempt
    \/ PublishResult
    \/ AckMessage
    \/ SettleDelay
    \/ ReconnectAttempt

SpecTask == TaskInit /\ [][TaskNext]_vars

\* a ConfigManager is about to be created; there is no config file, or the
\* file of an earlier run
ConfigInit ==
    /\ disk = DefaultConfig
    /\ cfg = DefaultConfig
    /\ mpc = "start"
    /\ diff = 0
    /\ attempts = 0
    /\ max_attempts = 0
    /\ polls = 0
    /\ verifyOkAt = 0
    /\ sawTerminal = FALSE
    /\ pollsAfterTerminal = 0
    /\ savesFailed = FALSE
    /\ budgetSet = FALSE
    /\ timedOut = FALSE
    /\ startNodeCalled = FALSE
    /\ exit = "none"
    /\ hb = "off"
    /\ task = "off"
    /\ hadToken = FALSE
    /\ initCalls = 0
    /\ HbIdle
    /\ TokIdle
    /\ TaskInitWith(<<>>)
    /\ file \in {NoFile, save(StoredNodeConfig)}
    /\ cm = NodeConfigDefault
    /\ cpc = "new"
    /\ fresh = NoLoad
    /\ allSaved = TRUE
    /\ setterCalls = 0
    /\ RetryIdle

ConfigNext ==
    \/ CfgNew
    \/ CfgSetDeviceCode
    \/ CfgSetUserCode
    \/ CfgSetTokens
    \/ CfgSetNodeId
    \/ CfgUpdateAccessToken
    \/ CfgReload

\* one ConfigManager, its setters and fresh loads of the file it writes
SpecConfig == ConfigInit /\ [][ConfigNext]_vars

\* start_node has spawned both tasks of a registered node, the heartbeat task
\* has created its ConfigManager, and the stream holds one job for this node
LoopsInit ==
    /\ disk = [device_code |-> "dc", user_code |-> "uc", access_token |-> "at0",
               refresh_token |-> "rt0", node_id |-> "node1"]
    /\ cfg = disk
    /\ mpc = "join"
    /\ diff = 0
    /\ attempts = 0
    /\ max_attempts = 0
    /\ polls = 0
    /\ verifyOkAt = 0
    /\ sawTerminal = FALSE
    /\ pollsAfterTerminal = 0
    /\ savesFailed = FALSE
    /\ budgetSet = FALSE
    /\ timedOut = FALSE
    /\ startNodeCalled = TRUE
    /\ exit = "none"
    /\ hb = "looping"
    /\ task = "starting"
    /\ hadToken = TRUE
    /\ initCalls = 0
    /\ HbRunning(disk)
    /\ TokIdle
    /\ CfgIdle
    /\ RetryIdle
    /\ TaskInitWith(<<Msg(1, "Good")>>)

\* the steps of both tasks; the consumer receives at most MaxLoopReceipts
\* messages and loses its subscription at most MaxLoopDisconnects times
LoopsNext ==
    \/ Subscribe
    \/ (receipts < MaxLoopReceipts /\ Receive)
    \/ (disconnects < MaxLoopDisconnects /\ ReceiveError)
    \/ ProcessTask
    \/ SdAttempt
    \/ PublishResult
    \/ AckMessage
    \/ SettleDelay
    \/ ReconnectAttempt
    \/ HbCheckRefresh
    \/ HbProactiveRefresh
    \/ HbCollect
    \/ HbSend
    \/ HbReactiveRefresh
    \/ HbSleep

\* the task of start_processing and the heartbeat task, interleaved
SpecLoops == LoopsInit /\ [][LoopsNext]_vars

\* the two loops are about to run on the same budget and the same outcomes,
\* the first delay of text_to_image in seconds
RetryInit ==
    /\ disk = DefaultConfig
    /\ cfg = DefaultConfig
    /\ mpc = "start"
    /\ diff = 0
    /\ attempts = 0
    /\ max_attempts = 0
    /\ polls = 0
    /\ verifyOkAt = 0
    /\ sawTerminal = FALSE
    /\ pollsAfterTerminal = 0
    /\ savesFailed = FALSE
    /\ budgetSet = FALSE
    /\ timedOut = FALSE
    /\ startNodeCalled = FALSE
    /\ exit = "none"
    /\ hb = "off"
    /\ task = "off"
    /\ hadToken = FALSE
    /\ initCalls = 0
    /\ HbIdle
    /\ TokIdle
    /\ CfgIdle
    /\ TaskInitWith(<<>>)
    /\ rtBudget \in 1 .. MaxBudget
    /\ rtFirst \in 1 .. MaxFirstDelay
    /\ rtOutcomes \in [1 .. rtBudget -> {"ok", "fail"}]
    /\ sdTrace = NoTrace
    /\ rcTrace = NoTrace

RetryNext == RunSdLoop \/ RunReconnectLoop

\* the two retry loops on the same inputs
SpecRetry == RetryInit /\ [][RetryNext]_vars

----------------------------------------------------------------------------
(* Properties of TaskProcessor (checked under SpecTask) *)

\* the results the sink holds for job j
SinkCount(j) == Cardinality({ i \in 1 .. Len(sink) : sink[i].job = j })

\* the results the sink holds from the n-th receipt
SinkCountOfReceipt(n) == Cardinality({ i \in 1 .. Len(sink) : sink[i].receipt = n })

\* process_task is running for the message in hand
Handling == tpc \in {"Handle", "Sd", "Publish"}

\* process_task has returned and msg.ack() is the next call
AtAck == tpc = "Ack"

\* C1, as stated: when the message is acknowledged the sink holds exactly one
\* JobResult of that receipt, whatever the payload and whatever the outcome of
\* the publish call.
C1_ExactlyOnePublishedAtAck ==
    AtAck => SinkCountOfReceipt(receipts) = 1

\* C1, amended: when the message is acknowledged exactly one publish call has
\* been made for the receipt, never zero and never two; the sink holds one
\* JobResult of the receipt if that call succeeded and none if it failed, and
\* never two of any receipt.
C1_OnePublishAttemptAtAck ==
    /\ AtAck => /\ pubAttempts = 1
                /\ pubOk \in {0, 1}
                /\ SinkCountOfReceipt(receipts) = pubOk
    /\ \A n \in 1 .. receipts : SinkCountOfReceipt(n) <= 1

\* C1 witness: a receipt at its acknowledgement whose one publish call failed
C1_Witness ==
    /\ AtAck
    /\ pubAttempts = 1
    /\ pubOk = 0
    /\ SinkCountOfReceipt(receipts) = 0

\* C2: no acknowledgement of a message precedes the publish attempt for it:
\* per job the ack calls never outnumber the publish calls, and where the ack
\* is issued a JobResult (completed or failed) has been built and handed to
\* the publish call.
C2_AckAfterPublishAttempt ==
    /\ \A j \in JobIds : ackTried[j] <= pubTried[j]
    /\ AtAck => /\ result.status \in {"completed", "failed"}
                /\ pubAttempts >= 1

\* C2 witness: a completed and a failed result were both published and acknowledged
C2_Witness ==
    /\ tpc = "Consuming"
    /\ \E j \in JobIds : ackTried[j] = 1 /\ pubTried[j] = 1
    /\ \E i \in 1 .. Len(sink) : sink[i].status = "completed"
    /\ \E i \in 1 .. Len(sink) : sink[i].status = "failed"

\* C3, as stated: each job gets exactly one result, also across disconnects,
\* re-opened subscriptions and failed acknowledgements: never a second result
\* for a job, and a job that is settled (acknowledged) has its result.
C3_ExactlyOneResultPerJob ==
    \A j \in JobIds : /\ SinkCount(j) <= 1
                      /\ ackedOk[j] => SinkCount(j) = 1

\* C3, amended: exactly one publish call is made per delivery of a job, also
\* across disconnects and re-opened subscriptions; the sink holds at most one
\* result per delivery (none for a delivery whose publish call failed, a
\* further one for a job delivered again after a failed acknowledgement), and
\* no job is dropped by the agent: it is settled, in hand, or still in the stream.
C3_OnePublishPerDelivery ==
    \A j \in JobIds :
        LET inHand == cur.id = j
            handled == delivered[j] - (IF inHand /\ Handling THEN 1 ELSE 0)
        IN  /\ pubTried[j] = handled
            /\ SinkCount(j) <= pubTried[j]
            /\ ackTried[j] = delivered[j] - (IF inHand THEN 1 ELSE 0)
            /\ \/ ackedOk[j]
               \/ inHand
               \/ \E i \in 1 .. Len(queue) : queue[i].id = j

\* C3 witness: after a disconnect and a reconnection, a job delivered twice
\* has two results in the sink
C3_Witness ==
    /\ disconnects >= 1
    /\ tpc = "Consuming"
    /\ \E j \in JobIds : delivered[j] = 2 /\ SinkCount(j) = 2

\* C4, as stated: the handler never returns an error to the consumer loop.
C4_HandlerNeverReturnsErr ==
    handlerRet # "err"

\* C4, amended: the handler returns an error to the consumer loop exactly when
\* the publish call failed; a failure of the parse, the node-id check, the
\* parameters or the compute call is captured in a failed JobResult that is
\* handed to the publish call, and nothing is returned before that call.
C4_ErrOnlyFromPublish ==
    /\ Handling => handlerRet = "none"
    /\ AtAck => /\ handlerRet \in {"ok", "err"}
                /\ handlerRet = "err" <=> pubOk = 0
                /\ pubAttempts = 1
                /\ result.status \in {"completed", "failed"}
                /\ cur.payload # "Good" => result.status = "failed"
                /\ result.status = "failed" <=> result.error_stack # None

\* C4 witness: an unparseable payload, its failed JobResult built, the publish
\* call failed and the handler returned the error
C4_Witness ==
    /\ AtAck
    /\ cur.payload = "Unparseable"
    /\ result.status = "failed"
    /\ handlerRet = "err"

----------------------------------------------------------------------------
(* Properties of the registration flow (checked under SpecMain) *)

\* floor((expires_at - now) / poll_interval)
FloorBudget == diff \div DEVICE_VERIFY_POLL_INTERVAL

CredentialStored ==
    \/ disk.access_token # None
    \/ disk.refresh_token # None
    \/ disk.node_id # None

LoopsStarted == hb # "off" \/ task # "off"

\* C7, as stated: after a verify response of Gone (CodeExpired) or Forbidden
\* (DeviceDisabled) no further verify poll is made, no credential is stored
\* and neither loop is started.
C7_TerminalVerifyEndsFlow ==
    sawTerminal => /\ pollsAfterTerminal = 0
                   /\ ~CredentialStored
                   /\ ~LoopsStarted

\* C8: the number of verify polls never exceeds the attempt budget
\* floor((expires_at - now) / poll_interval), which is fixed once the polling
\* starts; with a budget of zero or less no poll is made.
C8_PollsWithinBudget ==
    /\ polls <= (IF FloorBudget > 0 THEN FloorBudget ELSE 0)
    /\ FloorBudget <= 0 => polls = 0
    /\ budgetSet => (max_attempts > 0 => max_attempts = FloorBudget)

\* C8 witness: a budget of several polls used up to the last one
C8_Witness ==
    /\ mpc = "done"
    /\ FloorBudget >= 2
    /\ polls = FloorBudget

\* C9: when the polling has ended and verify never succeeded, the flow has
\* ended as a timeout: main returns Ok, no access_token, refresh_token or
\* node_id is stored, start_node is not entered and neither loop is started.
C9_TimeoutIsCleanAndStoresNothing ==
    (budgetSet /\ verifyOkAt = 0) =>
        /\ ~CredentialStored
        /\ ~LoopsStarted
        /\ ~startNodeCalled
        /\ mpc \in {"poll", "after_loop", "done"}
        /\ mpc = "after_loop" => polls = (IF max_attempts > 0 THEN max_attempts ELSE 0)
        /\ mpc = "done" => /\ timedOut
                           /\ exit = "ok"

\* C9 witness: every poll of a budget of several failed and main has returned
C9_Witness ==
    /\ mpc = "done"
    /\ timedOut
    /\ polls >= 2
    /\ verifyOkAt = 0

----------------------------------------------------------------------------
(* Properties of the start of the node (checked under SpecNode and SpecMain) *)

\* access_token, refresh_token and node_id are all in the config file
FullCredentialStored ==
    /\ disk.access_token # None
    /\ disk.refresh_token # None
    /\ disk.node_id # None

\* a step of the heartbeat task or of the task-processing task has been taken
LoopStepTaken ==
    \/ LoopsStarted
    \/ hbpc # "Idle"
    \/ cycRefresh > 0
    \/ cycBeats > 0

\* C11: no step of the heartbeat task (token check, refresh, telemetry,
\* heartbeat) and no step of the task-processing task (subscribe, handling)
\* is taken before access_token, refresh_token and node_id are stored; and
\* when the registration flow ran in this process it has ended, with a
\* successful verify, before the first such step.
C11_LoopsOnlyAfterCredential ==
    LoopStepTaken =>
        /\ FullCredentialStored
        /\ startNodeCalled
        /\ mpc \in {"join", "done"}
        /\ ~hadToken => /\ verifyOkAt > 0
                        /\ polls = verifyOkAt
                        /\ ~timedOut

\* C11 witness: after a registration in this process a heartbeat has been
\* sent and the stream is being consumed
C11_Witness ==
    /\ ~hadToken
    /\ initCalls = 1
    /\ hbpc = "Sleep"
    /\ cycBeats = 1
    /\ task = "consuming"
    /\ FullCredentialStored

\* C12: the registration flow runs if and only if no access_token is stored
\* when the process starts.  With one stored, no init and no verify call is
\* made and start_node is the next thing entered; without one, nothing past
\* the start is reached except through one init call, whatever device_code or
\* user_code the file holds from an earlier run.
C12_RegistrationIffNoStoredToken ==
    /\ initCalls <= 1
    /\ (initCalls > 0 \/ polls > 0 \/ budgetSet) => ~hadToken
    /\ hadToken =>
          /\ mpc \in {"start", "start_node", "join", "done"}
          /\ (mpc = "done" /\ ~startNodeCalled) => exit = "err"
    /\ ~hadToken =>
          /\ mpc \notin {"start", "init", "done"} => initCalls = 1
          /\ (polls > 0 \/ startNodeCalled \/ budgetSet) => initCalls = 1
          /\ (mpc = "done" /\ initCalls = 0) => exit = "err"

\* C12 witness: no access_token stored but a user_code of an earlier run is;
\* the init call has been made again and its codes are not yet written
C12_Witness ==
    /\ ~hadToken
    /\ mpc = "save_device_code"
    /\ initCalls = 1
    /\ disk.user_code # None
    /\ disk.access_token = None

----------------------------------------------------------------------------
(* Properties of should_refresh_token (checked under SpecToken) *)

\* three segments, a payload that decodes to a record, exp in Unix seconds
WellFormedWithExp(t) ==
    /\ t.segs = 3
    /\ t.b64
    /\ t.json = "object"
    /\ t.exp = "u64"

\* a segment count other than three, a payload segment that is not base64url,
\* a payload that is not a structured record, or no exp field
Malformed(t) ==
    \/ t.segs # 3
    \/ ~t.b64
    \/ t.json # "object"
    \/ t.exp = "absent"

C14_MalformedGivesTokenParseError ==
    (srResult # NoAnswer /\ Malformed(tok)) => srResult = ErrAnswer

\* C14 witness: a three-segment token whose payload decodes to an array, with
\* a threshold that would overflow the addition: TokenParseError
C14_Witness ==
    /\ tok.segs = 3
    /\ tok.b64
    /\ tok.json = "array"
    /\ now + threshold > U64Max
    /\ srResult = ErrAnswer

----------------------------------------------------------------------------
(* Properties of the retry loop of text_to_image (checked under SpecTask) *)

\* the retryable conditions: a server error status, a body with a transient
\* signature, a body that does not parse, an empty image list; and a request
\* that could not be sent
RetryableFailure(resp) ==
    \/ resp.kind \in {"Http5xx", "Http4xxTransient", "BadJson", "NetErr"}
    \/ resp.kind = "Images" /\ resp.n = 0

\* text_to_image has returned to process_task
LoopReturned == tpc \in {"Publish", "Ack"} /\ sdCalls >= 1

\* C15, as stated: when every backend call fails with a retryable error the
\* backend is called exactly 5 times and the loop returns the error of the
\* 5th call.  (The loop goes on only after a retryable failure, so every call
\* was one exactly when the last one was.)
C15_FiveCallsThenLastError ==
    /\ sdCalls <= 5
    /\ (LoopReturned /\ RetryableFailure(lastResp)) =>
          /\ sdCalls = 5
          /\ result.status = "failed"
          /\ result.error_stack = lastResp.kind

\* C16: a fatal failure ends the loop on the attempt it occurs: the loop has
\* returned it as the error, no call and no sleep follows it (the calls made
\* are the retries before it plus one, the sleeps one fewer than the calls),
\* and on the first attempt exactly one call was made and nothing was slept.
C16_FatalEndsLoopAtOnce ==
    lastResp.kind = "Http4xxFatal" =>
        /\ LoopReturned
        /\ result.status = "failed"
        /\ result.error_stack = "Http4xxFatal"
        /\ sdCalls = retry + 1
        /\ Len(delays) = sdCalls - 1
        /\ retry = 0 => (sdCalls = 1 /\ delays = <<>>)

\* C16 witness: a fatal failure on the third attempt, after two retries
C16_Witness ==
    /\ lastResp.kind = "Http4xxFatal"
    /\ sdCalls = 3
    /\ Len(delays) = 2
    /\ tpc = "Publish"

\* C17: the delays slept are, in order, 1000, 2000, 4000, 8000 ms, one after
\* each failed attempt that is retried: none before the first attempt, none
\* after the attempt that ends the loop, at most four.
C17_GeometricDelays ==
    /\ Len(delays) <= 4
    /\ delays = SubSeq(<<1000, 2000, 4000, 8000>>, 1, Len(delays))
    /\ sdCalls <= 1 => delays = <<>>
    /\ sdCalls >= 1 => Len(delays) = sdCalls - 1

\* C17 witness: five calls were made and the loop has returned
C17_Witness ==
    /\ sdCalls = 5
    /\ LoopReturned
    /\ delays = <<1000, 2000, 4000, 8000>>

\* C18, as stated: a success of text_to_image carries at least one image, on
\* every attempt, so a completed JobResult has at least one result URL.
C18_SuccessHasImages ==
    result.status = "completed" =>
        /\ result.result_urls.some
        /\ Len(result.result_urls.urls) >= 1

\* C19: a retryable failure on an attempt before the 5th never ends the loop,
\* and a response with n >= 1 images after k such failures ends it as a
\* success on attempt k + 1, after exactly k + 1 calls, k < 5, with exactly n
\* results, each in URL form.
C19_SuccessAfterRetryableFailures ==
    /\ (sdCalls >= 1 /\ sdCalls < 5 /\ RetryableFailure(lastResp)) =>
          (tpc = "Sd" /\ retry = sdCalls)
    /\ (lastResp.kind = "Images" /\ lastResp.n >= 1) =>
          /\ LoopReturned
          /\ sdCalls = retry + 1
          /\ retry < 5
          /\ result.status = "completed"
          /\ result.result_urls.some
          /\ Len(result.result_urls.urls) = lastResp.n
          /\ \A i \in 1 .. lastResp.n :
                result.result_urls.urls[i][1] = "data:image/png;base64"

\* C19 witness: two failed calls, two sleeps, then one image on the third call
C19_Witness ==
    /\ lastResp.kind = "Images"
    /\ lastResp.n = 1
    /\ sdCalls = 3
    /\ delays = <<1000, 2000>>
    /\ result.status = "completed"
    /\ Len(result.result_urls.urls) = 1

----------------------------------------------------------------------------
(* Properties of the heartbeat loop (checked under SpecHeartbeat) *)

\* the positions of one cycle of the loop
CyclePositions == {"CheckRefresh", "Refresh", "Collect", "Send", "Refresh401", "Sleep"}

\* C20: once the loop is running no step ends it or takes it out of its
\* cycle, whatever calls fail; from every point of a cycle, with any set of
\* failed calls (token parse, refresh, config save, telemetry, heartbeat), the
\* loop reaches Sleep, and from Sleep it begins the next cycle.
C20_LoopSurvivesFailedCalls ==
    /\ [][hb = "looping" => (hb' = "looping" /\ hbpc' \in CyclePositions)]_vars
    /\ (hb = "looping" /\ hbpc # "Sleep") ~> (hbpc = "Sleep")
    /\ (hb = "looping" /\ cycFails # {}) ~> (hbpc = "Sleep" /\ cycFails # {})
    /\ (hbpc = "Sleep") ~> (hbpc = "CheckRefresh" /\ cycFails = {})

\* C20 witness: a cycle in which a config save, a heartbeat and a refresh
\* failed has reached Sleep
C20_Witness ==
    /\ hb = "looping"
    /\ hbpc = "Sleep"
    /\ cycFails = {"save", "heartbeat401", "refresh"}

----------------------------------------------------------------------------
(* Properties of the reconnection of start_processing (checked under SpecTask) *)

\* the re-open attempts of the running episode that have failed: each one is
\* followed by its backoff, and the settle delay precedes the first
FailedAttempts == IF backoffs = <<>> THEN 0 ELSE Len(backoffs) - 1

\* the consumer has left its loops
Failed == tpc = "Ended"

\* C21: the consumer moves between Consuming (with the handling of the message
\* in hand), Disconnected, Reconnecting and Failed only: a receive error goes
\* from Consuming to Disconnected, the settle delay from Disconnected to
\* Reconnecting with no attempt made yet, at most 3 re-open attempts are made
\* in Reconnecting, a successful one goes to Consuming at once and pulls
\* nothing itself, the third failed one goes to Failed, and from Failed no
\* step is taken: no message is pulled again.
C21_ReconnectStateMachine ==
    /\ [](tpc = "Reconnecting" => (attempt \in 1 .. 3 /\ FailedAttempts = attempt - 1))
    /\ [](tpc = "Disconnected" => backoffs = <<>>)
    /\ [][/\ (tpc = "Consuming" /\ tpc' # "Consuming") =>
                \/ tpc' = "Handle" /\ receipts' = receipts + 1
                \/ tpc' = "Disconnected" /\ receipts' = receipts /\ queue' = queue
          /\ tpc' = "Disconnected" => tpc = "Consuming"
          /\ tpc = "Disconnected" =>
                /\ tpc' = "Reconnecting"
                /\ attempt' = 1
                /\ backoffs' = <<SETTLE_DELAY_S>>
          /\ tpc' = "Reconnecting" => tpc \in {"Disconnected", "Reconnecting"}
          /\ tpc = "Reconnecting" =>
                /\ receipts' = receipts
                /\ queue' = queue
                /\ \/ tpc' = "Consuming"
                   \/ /\ tpc' = "Reconnecting"
                      /\ attempt < 3
                      /\ attempt' = attempt + 1
                   \/ /\ tpc' = "Ended"
                      /\ attempt = 3
                      /\ FailedAttempts' = 3
          /\ Failed => (Failed' /\ receipts' = receipts /\ queue' = queue /\ cur' = cur)
       ]_vars

\* C21 witness: after a first disconnect that was repaired, a second one whose
\* three re-open attempts failed: the consumer is in Failed
C21_Witness ==
    /\ Failed
    /\ disconnects = 2
    /\ attempt = 3
    /\ backoffs = <<5, 2, 4, 8>>

\* C22, as stated: when the three re-open attempts have failed and the
\* consumer is in Failed, start_processing has returned an error to its
\* caller, not a normal completion.
C22_ExhaustionReportedAsError ==
    (Failed /\ FailedAttempts = 3) => taskRet = "err"

----------------------------------------------------------------------------
(* Properties of start_node (checked under SpecMain) *)

\* the heartbeat task found the config store unavailable when it started
HeartbeatStartFailed == hb = "ended"

\* C23, as stated: after a startup-time error the process ends with an error
\* and no loop is left running on its own; here for the config store found
\* unavailable by the heartbeat task at its start: the process does not end
\* normally, and the consumer is not consuming without the heartbeat loop.
C23_StartupErrorsFatal ==
    HeartbeatStartFailed => (exit # "ok" /\ task # "consuming")

----------------------------------------------------------------------------
(* Properties of ConfigManager (checked under SpecConfig) *)

\* the fields of NodeConfig
ConfigFields == {"device_code", "user_code", "access_token", "refresh_token",
                 "node_id", "base_url"}

\* C24: after one or more setter calls that all returned Ok, a fresh
\* ConfigManager::new() succeeds and its record equals the record in memory
\* of the manager that wrote the file, field for field.
C24_ConfigRoundTrip ==
    (cpc = "reloaded" /\ allSaved /\ setterCalls >= 1) =>
        /\ fresh.ok
        /\ \A f \in ConfigFields : fresh.config[f] = cm[f]

\* C24 witness: three setter calls succeeded on the file of an earlier run,
\* leaving an access token with a backslash before the letter n and a node
\* id with a line feed, and the file was loaded afresh
C24_Witness ==
    /\ cpc = "reloaded"
    /\ allSaved
    /\ setterCalls = 3
    /\ cm.access_token = SomeOpt(<<"\\", "n">>)
    /\ cm.node_id = SomeOpt(<<"\n", "a">>)
    /\ cm.user_code = SomeOpt(<<"\"">>)
    /\ cm.base_url = <<"http://localhost">>
    /\ fresh.ok

----------------------------------------------------------------------------
(* Properties of one heartbeat cycle (checked under SpecHeartbeat) *)

\* the CheckRefresh step of the cycle, and the refresh it may call, are over
PastCheckRefresh == hbpc \in {"Collect", "Send"}

\* C25, as stated: when should_refresh_token answers true, and also when it
\* cannot parse the token, the CheckRefresh step makes a refresh call; when it
\* answers false, and only then, the step makes none.
C25_RefreshOnTrueAndOnParseFailure ==
    /\ hbpc = "Refresh" => cycAnswer \in {"true", "err"}
    /\ (PastCheckRefresh /\ cycAnswer \in {"true", "err"}) => cycRefresh = 1
    /\ (PastCheckRefresh /\ cycAnswer = "false") => cycRefresh = 0

\* the refresh calls of the cycle made after the heartbeat: all calls of the
\* cycle but the one of the CheckRefresh step
ReactiveRefreshes == cycRefresh - (IF cycAnswer = "true" THEN 1 ELSE 0)

\* C26, as stated: a heartbeat that failed with HTTP 401 is followed by exactly
\* one refresh call, the heartbeat is sent at most once per cycle (so the next
\* one is sent only after the Sleep), and a heartbeat that failed otherwise
\* is followed by no refresh call.
C26_Refresh401Only ==
    /\ cycBeats <= 1
    /\ hbpc = "Send" => cycBeats = 0
    /\ (hbpc = "Sleep" /\ beatResp = "Http401") => ReactiveRefreshes = 1
    /\ (beatResp \in {"ErrMentions401", "ErrOther"}) =>
          (hbpc = "Sleep" /\ ReactiveRefreshes = 0)

\* C27, as stated: at every Sleep point the access token the loop holds is the
\* one the config file holds (a refresh that succeeds changes both, one that
\* fails changes neither), so the loop never uses a token that is in memory
\* only: a heartbeat is sent with the token of the file.
C27_CredentialWriteThrough ==
    /\ (hb = "looping" /\ hbpc = "Sleep") => hbToken = disk.access_token
    /\ (hb = "looping" /\ hbpc = "Sleep" /\ cycBeats = 1 /\ ReactiveRefreshes = 0) =>
          beatToken = disk.access_token

\* C28: in a cycle whose telemetry collection failed the loop is at its sleep
\* with no heartbeat sent and no refresh made after the collection, and it
\* goes on to the next cycle.
C28_TelemetryFailureSkipsCycle ==
    /\ []("telemetry" \in cycFails =>
            /\ hb = "looping"
            /\ hbpc = "Sleep"
            /\ cycBeats = 0
            /\ beatResp = "none"
            /\ ReactiveRefreshes = 0)
    /\ ("telemetry" \in cycFails) ~> (hbpc = "CheckRefresh" /\ cycFails = {})

\* C28 witness: the token was refreshed in the CheckRefresh step, then the
\* telemetry collection failed
C28_Witness ==
    /\ "telemetry" \in cycFails
    /\ cycAnswer = "true"
    /\ cycRefresh = 1
    /\ hbpc = "Sleep"

----------------------------------------------------------------------------
(* Properties of the order of handling (checked under SpecTask) *)

RECURSIVE SumTo(_, _)
\* f[1] + .. + f[n]
SumTo(f, n) == IF n = 0 THEN 0 ELSE f[n] + SumTo(f, n - 1)

\* the publish calls and the ack calls made so far, over all jobs
PublishCalls == SumTo(pubTried, MaxJobs)
AckCalls == SumTo(ackTried, MaxJobs)

\* C29: a message is in hand exactly while it is handled or about to be
\* acknowledged, so at most one job is executed at a time; a message is
\* pulled only when none is in hand and every message received before has had
\* its handling (one publish call) and its ack call, and it is the one at the
\* head of the stream; the results in the sink are in the order of receipt.
C29_OneAtATimeInOrder ==
    /\ []((cur # NoMsg) <=> (Handling \/ AtAck))
    /\ [](receipts - AckCalls = (IF cur # NoMsg THEN 1 ELSE 0))
    /\ [](receipts - PublishCalls = (IF Handling THEN 1 ELSE 0))
    /\ [](\A i, j \in 1 .. Len(sink) : i < j => sink[i].receipt < sink[j].receipt)
    /\ [][receipts' # receipts =>
            /\ tpc = "Consuming"
            /\ cur = NoMsg
            /\ AckCalls = receipts
            /\ PublishCalls = receipts
            /\ receipts' = receipts + 1
            /\ queue # <<>>
            /\ cur' = Head(queue)
            /\ queue' = Tail(queue)]_vars

\* C29 witness: three messages were received, the third a redelivery of the
\* first, and the sink holds their three results in the order of receipt
C29_Witness ==
    /\ receipts = 3
    /\ Len(sink) = 3
    /\ sink[1].job = sink[3].job
    /\ sink[2].job # sink[1].job
    /\ sink[1].receipt = 1
    /\ sink[2].receipt = 2
    /\ sink[3].receipt = 3
    /\ tpc = "Ack"

----------------------------------------------------------------------------
(* Properties of the two tasks together (checked under SpecLoops) *)

\* the fields of the persisted record other than the access token
OtherStoredFields == {"device_code", "user_code", "refresh_token", "node_id"}

\* C30: once the loops run, the config file changes only in a refresh step of
\* the heartbeat task, and then only in its access_token; no step of the
\* stream consumer or of the task runner changes the file or the heartbeat
\* task's record, under every interleaving of the two tasks.
C30_HeartbeatSoleWriter ==
    /\ [][disk' # disk =>
            /\ hbpc \in {"Refresh", "Refresh401"}
            /\ cycRefresh' = cycRefresh + 1
            /\ taskVars' = taskVars
            /\ disk'.access_token = hbToken'
            /\ \A f \in OtherStoredFields : disk'[f] = disk[f]]_vars
    /\ [][taskVars' # taskVars => (disk' = disk /\ hbCfg' = hbCfg /\ hbToken' = hbToken)]_vars

\* C30 witness: the heartbeat task has rewritten the file with a new access
\* token while the consumer was calling the backend for a job
C30_Witness ==
    /\ disk.access_token = "at1"
    /\ disk.refresh_token = "rt0"
    /\ disk.node_id = "node1"
    /\ tpc = "Sd"
    /\ sdCalls = 2
    /\ hbpc = "Collect"

----------------------------------------------------------------------------
(* Properties of the waits of the reconnection (checked under SpecTask) *)

\* the backoffs slept in the running episode, the settle delay left out
BackoffWaits == IF backoffs = <<>> THEN <<>> ELSE Tail(backoffs)

\* C31, as stated: the waits of an episode are 2 s after failed attempt 1 and
\* 4 s after failed attempt 2, and there is no other: none after a successful
\* attempt, and none after the 3rd failed attempt, before Failed.
C31_BackoffBetweenAttemptsOnly ==
    /\ Len(BackoffWaits) <= 2
    /\ BackoffWaits = SubSeq(<<2, 4>>, 1, Len(BackoffWaits))
    /\ tpc = "Reconnecting" => Len(BackoffWaits) = attempt - 1
    /\ (Failed /\ disconnects >= 1) => BackoffWaits = <<2, 4>>

----------------------------------------------------------------------------
(* Properties of the two retry loops (checked under SpecRetry) *)

\* both loops have run
BothLoopsRan == sdTrace # NoTrace /\ rcTrace # NoTrace

\* the attempts and the sleeps of a trace
AttemptsOf(tr) == Cardinality({ i \in 1 .. Len(tr) : tr[i].ev = "attempt" })
SleepsOf(tr) == Cardinality({ i \in 1 .. Len(tr) : tr[i].ev = "sleep" })

\* C32, as stated: on the same budget, the same first delay and the same
\* outcomes the two loops make the same attempts and sleep the same delays at
\* the same points: their traces are equal, every sleep after attempt k being
\* first * 2^(k-1).
C32_SameRetryAlgorithm ==
    (BothLoopsRan /\ rtFirst = RECONNECT_FIRST_DELAY_S) =>
        /\ sdTrace = rcTrace
        /\ \A i \in 1 .. Len(rcTrace) :
              rcTrace[i].ev = "sleep" => rcTrace[i].d = rtFirst * Pow2(rcTrace[i].k - 1)

----------------------------------------------------------------------------
(* Properties of the TaskResult (checked under SpecTask) *)

\* C33, as stated: for a job that reached the backend the duration of the
\* result is the time elapsed from the start of process_task to the return of
\* the backend call, for a completed and for a failed result alike.
C33_DurationIsElapsed ==
    LoopReturned => result.duration_ms = elapsed

\* a TaskResult has been built and is being, or has been, published
ResultBuilt == tpc \in {"Publish", "Ack"}

\* C34: a published TaskResult has status completed or failed, has result
\* URLs exactly when completed and an error text exactly when failed, has
\* retries = 0 however many backend calls were made, and for a parseable
\* message carries the task id of the job (which is also its subject in the
\* sink); the sink holds nothing else.
C34_ResultShape ==
    /\ ResultBuilt =>
          /\ result.status \in {"completed", "failed"}
          /\ result.result_urls.some <=> (result.status = "completed")
          /\ (result.error_stack # None) <=> (result.status = "failed")
          /\ result.retries = 0
          /\ ParseOk(cur) => result.task_id = TaskIdOf(cur.id)
    /\ \A i \in 1 .. Len(sink) :
          /\ sink[i].status \in {"completed", "failed"}
          /\ sink[i].subject[1] = "task" => sink[i].subject = TaskIdOf(sink[i].job)

\* C34 witness: a completed result built after three backend calls, published
C34_Witness ==
    /\ tpc = "Ack"
    /\ pubOk = 1
    /\ sdCalls = 3
    /\ result.status = "completed"
    /\ result.retries = 0
    /\ Len(result.result_urls.urls) = 2

\* the message in hand is a Job for this node whose params hold no prompt
NoPromptInHand == cur.payload = "NoPrompt"

\* C35, as stated: a job for this node without a prompt fails with the
\* missing-parameter error before any backend call, and when it is
\* acknowledged exactly one failed result with that error is in the sink.
C35_MissingPromptOneFailedResult ==
    /\ NoPromptInHand => (sdCalls = 0 /\ tpc # "Sd")
    /\ (NoPromptInHand /\ AtAck) =>
          /\ result.status = "failed"
          /\ result.error_stack = "Missing required parameter: prompt"
          /\ SinkCountOfReceipt(receipts) = 1

\* C35, amended: no backend call is made for such a job, the result built is
\* a failed one with the missing-parameter error, the task id of the job and
\* no duration, and exactly one publish call is made for it per delivery: the
\* sink holds that result if the call succeeded and none if it failed.
C35_MissingPromptOnePublishCall ==
    /\ NoPromptInHand => (sdCalls = 0 /\ tpc # "Sd" /\ elapsed = 0)
    /\ (NoPromptInHand /\ ResultBuilt) =>
          /\ result.status = "failed"
          /\ result.error_stack = "Missing required parameter: prompt"
          /\ result.task_id = TaskIdOf(cur.id)
          /\ result.duration_ms = 0
    /\ (NoPromptInHand /\ AtAck) =>
          /\ pubAttempts = 1
          /\ SinkCountOfReceipt(receipts) = pubOk
          /\ pubOk = 1 => /\ sink[Len(sink)].status = "failed"
                          /\ sink[Len(sink)].subject = TaskIdOf(cur.id)
                          /\ sink[Len(sink)].receipt = receipts

\* C35 witness: a job without a prompt at its acknowledgement, its failed
\* result published
C35_Witness ==
    /\ NoPromptInHand
    /\ AtAck
    /\ pubOk = 1
    /\ sdCalls = 0
    /\ sink[Len(sink)].status = "failed"

----------------------------------------------------------------------------
(* Properties of the two tasks of start_node (checked under SpecNode) *)

\* the task of start_processing has ended, by exhaustion or with an error,
\* while the heartbeat loop is running
ConsumerEndedAlone == task = "ended" /\ hb = "looping"

\* C36: once the consumer has ended the heartbeat loop stays in its cycle,
\* its next step is always possible, and main stays in its join: the process
\* does not exit; a running heartbeat loop is never ended by any step; and no
\* step of the heartbeat loop, failed or not, changes the state of the
\* consumer: it neither stops nor restarts it.
C36_LoopsFailIndependently ==
    /\ [](ConsumerEndedAlone =>
            /\ exit = "none"
            /\ mpc = "join"
            /\ hbpc \in CyclePositions
            /\ ENABLED HbNext)
    /\ [][ConsumerEndedAlone => ConsumerEndedAlone']_vars
    /\ [][hb = "looping" => hb' = "looping"]_vars
    /\ [][(hb = "looping" /\ hbVars' # hbVars) => (task' = task /\ taskVars' = taskVars)]_vars

\* C36 witness: the consumer has ended, and the heartbeat loop is at the Sleep
\* of a cycle whose heartbeat failed with a 401 and whose refresh succeeded
C36_Witness ==
    /\ ConsumerEndedAlone
    /\ hbpc = "Sleep"
    /\ cycBeats = 1
    /\ beatResp = "Http401"
    /\ hbToken = "at1"
    /\ exit = "none"

----------------------------------------------------------------------------
(* Properties of the config file during registration (checked under SpecMain) *)

\* C37, as stated: whatever the file holds, also after a crash or a failed
\* save between two setters, a stored access_token comes with a stored
\* refresh_token and node_id, and a run that finds the token stored and skips
\* the registration passes the checks of start_node.
C37_StoredCredentialComplete ==
    /\ disk.access_token # None =>
          (disk.refresh_token # None /\ disk.node_id # None)
    /\ (startNodeCalled /\ hadToken /\ initCalls = 0) => exit # "err"

----------------------------------------------------------------------------
(* Properties of the reconnection budget (checked under SpecTask) *)

\* the consumer has left its loops after a disconnect (a failure of the first
\* subscription ends the routine too, with no episode behind it)
FailedAfterDisconnect == Failed /\ disconnects > 0

\* C38: the budget of re-open attempts belongs to the disconnect episode:
\* every entry into Reconnecting, the first and every later one, starts at
\* attempt 1 of 3 with no failed attempt counted; a successful re-open leaves
\* nothing of the episode behind, so the consumer is again in the state of one
\* that never disconnected and can take the next disconnect; and Failed is
\* entered only from Reconnecting by the failure of attempt 3, with the three
\* backoffs of that same episode behind it.
C38_BudgetPerEpisode ==
    /\ [](tpc = "Reconnecting" =>
            (attempt \in 1 .. RETRY_COUNT /\ FailedAttempts = attempt - 1))
    /\ [](FailedAfterDisconnect => (attempt = RETRY_COUNT /\ FailedAttempts = RETRY_COUNT))
    /\ [][/\ (tpc' = "Reconnecting" /\ tpc # "Reconnecting") =>
                /\ attempt' = 1
                /\ reconnected' = FALSE
                /\ FailedAttempts' = 0
          /\ (tpc = "Reconnecting" /\ tpc' = "Consuming") =>
                /\ attempt' = 0
                /\ backoffs' = <<>>
                /\ taskRet' = taskRet
          /\ (FailedAfterDisconnect' /\ ~FailedAfterDisconnect) =>
                /\ tpc = "Reconnecting"
                /\ attempt = RETRY_COUNT
                /\ FailedAttempts = RETRY_COUNT - 1
                /\ backoffs' = <<SETTLE_DELAY_S, 2, 4, 8>>
       ]_vars

\* C38 witness: the second episode is at its third attempt: with the attempt
\* or attempts of the first episode, which was repaired, more than three
\* attempts have been made in all and the consumer has not failed
C38_Witness ==
    /\ tpc = "Reconnecting"
    /\ disconnects = 2
    /\ attempt = 3
    /\ FailedAttempts = 2
    /\ taskRet = "none"

----------------------------------------------------------------------------
(* Properties of the length of one heartbeat cycle (checked under SpecHeartbeat) *)

\* the place of a step in the body of the loop
CycleRank(pc) ==
    CASE pc = "CheckRefresh" -> 0
      [] pc = "Refresh" -> 1
      [] pc = "Collect" -> 2
      [] pc = "Send" -> 3
      [] pc = "Refresh401" -> 4
      [] pc = "Sleep" -> 5
      [] OTHER -> 6

\* the refresh call of the CheckRefresh step has been made and has returned a
\* token (whether or not the file could be written)
ProactiveRefreshSucceeded ==
    /\ hbpc \in {"Collect", "Send"}
    /\ cycAnswer = "true"
    /\ cycRefresh = 1
    /\ "refresh" \notin cycFails

\* C39: one cycle of the heartbeat loop is bounded: it makes at most one
\* heartbeat call and at most two refresh calls, at most one before the
\* heartbeat and at most one after it; its steps only go forward in the body
\* of the loop, so it comes to the Sleep, and a cycle starts from the Sleep of
\* the one before (the first from the start of the task): the cycle passes through Sleep exactly once; and when
\* the refresh made before the heartbeat has returned a token, the heartbeat
\* of that cycle is sent with that token.
C39_CycleBounded ==
    /\ [](cycBeats <= 1 /\ cycRefresh <= 2)
    /\ [](cycRefresh - ReactiveRefreshes <= 1 /\ ReactiveRefreshes <= 1)
    /\ [](ReactiveRefreshes = 1 => (cycBeats = 1 /\ hbpc = "Sleep"))
    /\ [](ProactiveRefreshSucceeded => hbToken \in RefreshedTokens)
    /\ [][/\ (hbpc # "Sleep" /\ CycleRank(hbpc) <= 5) =>
                CycleRank(hbpc') > CycleRank(hbpc) /\ CycleRank(hbpc') <= 5
          /\ hbpc' = "CheckRefresh" => hbpc \in {"Sleep", "Idle"}
          /\ hbpc = "Sleep" =>
                (hbpc' = "CheckRefresh" /\ cycBeats' = 0 /\ cycRefresh' = 0)
          /\ ProactiveRefreshSucceeded => hbToken' = hbToken
          /\ cycBeats' = cycBeats + 1 => beatToken' = hbToken
          /\ (hbpc = "Refresh" /\ "refresh" \notin cycFails') =>
                (hbToken' \in RefreshedTokens /\ ProactiveRefreshSucceeded')
       ]_vars
    /\ (hbpc = "CheckRefresh") ~> (hbpc = "Sleep")

\* C39 witness: a cycle at its Sleep that has made two refresh calls and one
\* heartbeat call: the first refresh returned a token the file did not take,
\* the heartbeat was sent with that token and answered 401, and the second
\* refresh failed
C39_Witness ==
    /\ hbpc = "Sleep"
    /\ cycAnswer = "true"
    /\ cycRefresh = 2
    /\ cycBeats = 1
    /\ beatResp = "Http401"
    /\ beatToken = "at1"
    /\ hbToken = "at1"
    /\ disk.access_token = "at0"
    /\ cycFails = {"save", "heartbeat401", "refresh"}

====
